---- MODULE Spec2Model ----
\* Verification model of phobos-rs: the pass graph (src/graph/pass_graph.rs,
\* src/graph/resource.rs), the submission batch (src/sync/submit_batch.rs) and
\* its execution by the device, the deferred deletion queue
\* (src/util/deferred_delete.rs) and the scratch allocator
\* (src/allocator/scratch_allocator.rs, src/buffer.rs).
\*
\* Conventions
\*   - Bit flags (vk::AccessFlags2, PipelineStage) are sets of bit names; the
\*     bitwise OR of two flag values is the union of the sets, NONE is {}.
\*   - Option<T> is a sequence of length 0 (None) or 1 (Some).
\*   - petgraph node indices are 0-based; here a node index is the position in
\*     the sequence `nodes`, 1-based, so the first node has index 1.
EXTENDS Integers, Sequences, FiniteSets, TLC

VARIABLES
    nodes,        \* PassGraph.graph.graph: node weights, by node index
    edges,        \* PassGraph.graph.graph: edges in insertion order
    swapchain,    \* PassGraph.swapchain: Option<VirtualResource>
    last_usages,  \* PassGraph.last_usages: name -> (version, stage)
    phase,        \* "Open" (PassGraph owned by the caller), "Built", "Dropped"
    error,        \* the error returned by the call that dropped the graph
    phaseLog,     \* history: the build steps performed, in order
    added,        \* history: the passes add_pass was called with, in order
    taskEdges,    \* history: the task-to-task edges at the start of build
    submits,      \* SubmitBatch.submits
    ifc,          \* the InFlightContext's wait_semaphore and signal_semaphore
    semaphores,   \* number of semaphores created by Semaphore::new
    batchPhase,   \* "Assembling", "Finished" (fence returned), "Failed"
    submitted,    \* the submit_batch calls made on the device, in order
    fence,        \* the batch's fence: signaled flag and attached cleanup
    deleted,      \* the command buffers deleted so far
    cleanupRuns,  \* history: how often the fence's cleanup has run
    waitsOk,      \* history: number of successful waits on the fence
    lastCall,     \* history: the last batch call, its arguments and result
    lastOk,       \* history: arguments and returned handle of the last call that
                  \* returned a handle
    declared,     \* history: for each entry, the handles it was added with
    executing,    \* device: the submit records whose gated work has started
    executed,     \* device: the submit records whose command buffer has completed
    signalled,    \* device: the binary semaphores that hold a signal
    acquired,     \* device: the frame's image has been acquired
    max_ttl,      \* DeletionQueue.max_ttl
    items,        \* DeletionQueue.items
    queuePhase,   \* "Live", or "Panicked" after an arithmetic overflow panic
    frames,       \* history: number of next_frame calls that returned
    pushedAt,     \* history: value -> `frames` at the time of its push
    buffer,       \* ScratchAllocator.buffer: the size of the backing buffer
    offset,       \* ScratchAllocator.offset
    alignment,    \* ScratchAllocator.alignment
    lastAlloc,    \* history: the last allocator call and what it returned
    served,       \* history: the views allocate has returned since the last reset
    lastView,     \* history: the last call of Buffer::view or view_full on the buffer
    queries,      \* history: the resources is_read and access were applied to,
                  \* with what they returned
    COUNTER,      \* ImgView::get_new_id: the static AtomicU64
    pc,           \* for each thread, where it is in Image::view
    viewIds       \* for each thread, the ids of the views it has created

graphVars == <<nodes, edges, swapchain, last_usages, phase, error, phaseLog, added, taskEdges>>

batchVars == <<submits, ifc, semaphores, batchPhase, submitted, fence, deleted,
               cleanupRuns, waitsOk, lastCall, lastOk, declared>>

deviceVars == <<executing, executed, signalled, acquired>>

queueVars == <<max_ttl, items, queuePhase, frames, pushedAt>>

allocVars == <<buffer, offset, alignment, lastAlloc, served, lastView>>

usageVars == <<queries>>

imageVars == <<COUNTER, pc, viewIds>>

utilVars == <<queueVars, allocVars, usageVars, imageVars>>

vars == <<graphVars, batchVars, deviceVars, utilVars>>

----------------------------------------------------------------------------
\* Generic helpers

Max(S) == CHOOSE x \in S : \A y \in S : y <= x

InSeq(x, s) == \E i \in DOMAIN s : s[i] = x

RECURSIVE Concat(_)
Concat(ss) == IF ss = <<>> THEN <<>> ELSE Head(ss) \o Concat(Tail(ss))

----------------------------------------------------------------------------
\* Virtual resources (graph/virtual_resource.rs)

VirtualResource(name, version) == [name |-> name, version |-> version]

uid(resource) == <<resource.name, resource.version>>

is_source(resource) == resource.version = 0

is_associated_with(a, b) == a.name = b.name

----------------------------------------------------------------------------
\* Resource usage (graph/resource.rs)

\* ResourceUsage; Attachment(AttachmentType) is flattened to one name per
\* attachment type (a Resolve attachment's target resource is not modelled).
AttachmentUsages == {"AttachmentColor", "AttachmentDepth", "AttachmentResolve"}

ResourceUsages ==
    {"Nothing", "Present", "ShaderRead", "ShaderWrite", "TransferRead",
     "TransferWrite", "IndirectCommandRead"} \cup AttachmentUsages

access(usage) ==
    CASE usage = "Nothing" -> {}
      [] usage = "Present" -> {}
      [] usage = "AttachmentColor" -> {"COLOR_ATTACHMENT_WRITE"}
      [] usage = "AttachmentDepth" -> {"DEPTH_STENCIL_ATTACHMENT_WRITE"}
      [] usage = "AttachmentResolve" -> {"COLOR_ATTACHMENT_WRITE"}
      [] usage = "ShaderRead" -> {"SHADER_READ"}
      [] usage = "ShaderWrite" -> {"SHADER_WRITE"}
      [] usage = "TransferRead" -> {"TRANSFER_READ"}
      [] usage = "TransferWrite" -> {"TRANSFER_WRITE"}
      [] usage = "IndirectCommandRead" -> {"INDIRECT_COMMAND_READ"}

\* is_read that also takes Present for a read
is_read_or_present(usage) ==
    CASE usage = "Nothing" -> TRUE
      [] usage = "Present" -> TRUE
      [] usage \in AttachmentUsages -> FALSE
      [] usage = "ShaderRead" -> TRUE
      [] usage = "ShaderWrite" -> FALSE
      [] usage = "TransferRead" -> TRUE
      [] usage = "TransferWrite" -> FALSE
      [] usage = "IndirectCommandRead" -> TRUE

is_read(usage) ==
    CASE usage = "Nothing" -> TRUE
      [] usage = "Present" -> FALSE
      [] usage \in AttachmentUsages -> FALSE
      [] usage = "ShaderRead" -> TRUE
      [] usage = "ShaderWrite" -> FALSE
      [] usage = "TransferRead" -> TRUE
      [] usage = "TransferWrite" -> FALSE
      [] usage = "IndirectCommandRead" -> TRUE

----------------------------------------------------------------------------
\* Pass resources, barriers and nodes (graph/pass_graph.rs)

PassResource(usage, resource, stage, layout) ==
    [usage |-> usage, resource |-> resource, stage |-> stage, layout |-> layout]

\* impl Resource for PassResource: uid
uid_of(passResource) == uid(passResource.resource)

\* impl Resource for PassResource: is_dependency_of
is_dependency_of(self, lhs) == uid_of(self) = uid_of(lhs)

\* impl Barrier for PassResourceBarrier: new
Barrier_new(resource) ==
    [kind |-> "Barrier",
     resource |-> resource,
     src_access |-> access(resource.usage),
     dst_access |-> {},
     src_stage |-> resource.stage,
     dst_stage |-> {}]

PassNode(identifier, inputs, outputs) ==
    [kind |-> "Task", identifier |-> identifier, inputs |-> inputs, outputs |-> outputs]

Edge(src, dst, weight) == [source |-> src, target |-> dst, weight |-> weight]

IsTask(N, n) == N[n].kind = "Task"

IsBarrier(N, n) == N[n].kind = "Barrier"

\* iter().find(|r| r.uid() == u): the first resource of the list with this uid
FindByUid(resources, u) ==
    resources[CHOOSE i \in DOMAIN resources :
                 /\ uid_of(resources[i]) = u
                 /\ \A j \in 1..(i - 1) : uid_of(resources[j]) # u]

HasUid(resources, u) == \E i \in DOMAIN resources : uid_of(resources[i]) = u

----------------------------------------------------------------------------
\* Task graph core (graph/task_graph.rs)

RECURSIVE ReachSet(_, _)
ReachSet(E, S) ==
    LET N == S \cup {E[i].target : i \in {j \in DOMAIN E : E[j].source \in S}}
    IN  IF N = S THEN S ELSE ReachSet(E, N)

\* Is there a directed path (possibly empty) from a to b?
has_path_connecting(E, a, b) == b \in ReachSet(E, {a})

\* Commit the candidate edges one by one; an edge whose target already reaches
\* its source would close a cycle and fails the insertion.
RECURSIVE commit_edges(_, _)
commit_edges(E, cands) ==
    IF cands = <<>> THEN [ok |-> TRUE, edges |-> E]
    ELSE LET c == Head(cands)
         IN  IF has_path_connecting(E, c.target, c.source)
             THEN [ok |-> FALSE, edges |-> E]
             ELSE commit_edges(Append(E, c), Tail(cands))

\* TaskGraph::add_task
add_task(N, E, task) ==
    LET n == Len(N) + 1
        N1 == Append(N, task)
        producers(u) == {m \in 1..n : IsTask(N1, m) /\ HasUid(N1[m].outputs, u)}
        \* each input of the new task against the most recent matching output
        forward == Concat([i \in 1..Len(task.inputs) |->
                      LET u == uid_of(task.inputs[i])
                      IN  IF producers(u) = {} THEN <<>>
                          ELSE <<Edge(Max(producers(u)), n, u)>>])
        \* each output of the new task against the other tasks' inputs
        backward == Concat([m \in 1..(n - 1) |->
                      IF ~IsTask(N1, m) THEN <<>>
                      ELSE Concat([j \in 1..Len(N1[m].inputs) |->
                              LET u == uid_of(N1[m].inputs[j])
                              IN  IF HasUid(task.outputs, u)
                                  THEN <<Edge(n, m, u)>> ELSE <<>>])])
        r == commit_edges(E, forward \o backward)
    IN  [ok |-> r.ok, nodes |-> N1, edges |-> r.edges]

\* Do the two endpoints of an edge differ in access, stage or layout?
needs_barrier(src, dst) ==
    \/ access(src.usage) # access(dst.usage)
    \/ src.stage # dst.stage
    \/ src.layout # dst.layout

RECURSIVE create_barrier_nodes_from(_, _, _, _)
create_barrier_nodes_from(N, E0, k, Eacc) ==
    IF k > Len(E0) THEN [nodes |-> N, edges |-> Eacc]
    ELSE LET e == E0[k]
         IN  IF /\ IsTask(N, e.source) /\ IsTask(N, e.target)
                /\ needs_barrier(FindByUid(N[e.source].outputs, e.weight),
                                 FindByUid(N[e.target].inputs, e.weight))
             THEN LET b == Len(N) + 1
                      r == FindByUid(N[e.source].outputs, e.weight)
                  IN  create_barrier_nodes_from(
                          Append(N, Barrier_new(r)), E0, k + 1,
                          Eacc \o <<Edge(e.source, b, e.weight), Edge(b, e.target, e.weight)>>)
             ELSE create_barrier_nodes_from(N, E0, k + 1, Append(Eacc, e))

\* TaskGraph::create_barrier_nodes
create_barrier_nodes(N, E) == create_barrier_nodes_from(N, E, 1, <<>>)

----------------------------------------------------------------------------
\* petgraph operations used by the pass graph

\* Graph::edges(node).next(): petgraph lists a node's outgoing edges newest first
first_edge(E, node) == E[Max({i \in DOMAIN E : E[i].source = node})]

\* Graph::update_edge
update_edge(E, a, b, weight) ==
    LET hits == {i \in DOMAIN E : E[i].source = a /\ E[i].target = b}
    IN  IF hits = {} THEN Append(E, Edge(a, b, weight))
        ELSE [E EXCEPT ![Max(hits)].weight = weight]

\* Graph::remove_node: drops the node's edges and moves the last node into its slot
remove_node(G, a) ==
    LET last == Len(G.nodes)
        kept == SelectSeq(G.edges, LAMBDA e : e.source # a /\ e.target # a)
        ren(i) == IF i = last THEN a ELSE i
        N1 == IF a = last THEN SubSeq(G.nodes, 1, last - 1)
              ELSE [SubSeq(G.nodes, 1, last - 1) EXCEPT ![a] = G.nodes[last]]
    IN  [nodes |-> N1,
         edges |-> [i \in DOMAIN kept |->
                      Edge(ren(kept[i].source), ren(kept[i].target), kept[i].weight)]]

\* Graph::retain_nodes with the closure |_, node| !to_remove.contains(&node):
\* visits the indices from the last to the first
RECURSIVE retain_nodes_from(_, _, _)
retain_nodes_from(G, index, to_remove) ==
    IF index = 0 THEN G
    ELSE retain_nodes_from(
             IF InSeq(index, to_remove) THEN remove_node(G, index) ELSE G,
             index - 1, to_remove)

\* the closure without its negation: keeps exactly the nodes to remove
RECURSIVE retain_removed_from(_, _, _)
retain_removed_from(G, index, to_remove) ==
    IF index = 0 THEN G
    ELSE retain_removed_from(
             IF InSeq(index, to_remove) THEN G ELSE remove_node(G, index),
             index - 1, to_remove)

retain_removed(G, to_remove) == retain_removed_from(G, Len(G.nodes), to_remove)

retain_nodes(G, to_remove) == retain_nodes_from(G, Len(G.nodes), to_remove)

----------------------------------------------------------------------------
\* Pass graph (graph/pass_graph.rs)

\* PassGraph.source: the node index of the source task
source == 1

\* PassGraph::new: the graph holds the synthetic source task only
PassGraph_new(sc) ==
    [nodes |-> <<PassNode("_source", <<>>, <<>>)>>,
     edges |-> <<>>,
     swapchain |-> sc,
     last_usages |-> <<>>]

\* update_last_usage that also replaces an entry of the same version
update_last_usage_or_equal(lu, resource, stage) ==
    IF resource.name \in DOMAIN lu
    THEN IF resource.version >= lu[resource.name][1]
         THEN [lu EXCEPT ![resource.name] = <<resource.version, stage>>]
         ELSE lu
    ELSE (resource.name :> <<resource.version, stage>>) @@ lu

\* PassGraph::update_last_usage
update_last_usage(lu, resource, stage) ==
    IF resource.name \in DOMAIN lu
    THEN IF resource.version > lu[resource.name][1]
         THEN [lu EXCEPT ![resource.name] = <<resource.version, stage>>]
         ELSE lu
    ELSE (resource.name :> <<resource.version, stage>>) @@ lu

RECURSIVE update_last_usages(_, _)
update_last_usages(lu, resources) ==
    IF resources = <<>> THEN lu
    ELSE update_last_usages(
             update_last_usage(lu, Head(resources).resource, Head(resources).stage),
             Tail(resources))

\* add_pass, first block, giving the source node an output for every input
source_outputs_for_every_input(inputs) ==
    Concat([i \in 1..Len(inputs) |->
               <<PassResource("Nothing", inputs[i].resource, {}, "UNDEFINED")>>])

\* add_pass, first block: one source output per initial input of the pass
source_outputs_for(inputs) ==
    Concat([i \in 1..Len(inputs) |->
               IF is_source(inputs[i].resource)
               THEN <<PassResource("Nothing", inputs[i].resource, {}, "UNDEFINED")>>
               ELSE <<>>])

\* PassGraph::set_source_stages
set_source_stages(N, sc, lu) ==
    LET default == VirtualResource("__none__internal__", 0)
        target == IF sc = <<>> THEN default ELSE sc[1]
        staged(output) ==
            IF is_associated_with(output.resource, target)
            THEN [output EXCEPT !.stage = {"COLOR_ATTACHMENT_OUTPUT"}]
            ELSE [output EXCEPT !.stage = lu[output.resource.name][2]]
    IN  [N EXCEPT ![source].outputs = [i \in DOMAIN @ |-> staged(@[i])]]

\* barriers!(graph): the indices of the barrier nodes, in node order
barriers(N) == SelectSeq([i \in 1..Len(N) |-> i], LAMBDA i : IsBarrier(N, i))

\* PassGraph::barrier_dst_resource
barrier_dst_resource(N, E, node) ==
    FindByUid(N[first_edge(E, node).target].inputs, uid_of(N[node].resource))

\* merge_identical_barriers: the test that rejects two conflicting writes
is_conflict(other_usage, dst_usage) ==
    ~is_read(other_usage) /\ ~is_read(dst_usage) /\ other_usage # dst_usage

\* the flags of the representative, overwritten instead of accumulated
overwrite_flags(flags, other_resource) ==
    [stage |-> other_resource.stage, access |-> access(other_resource.usage)]

\* merge_identical_barriers: accumulate the other barrier's destination flags
accumulate_flags(flags, other_resource) ==
    [stage |-> other_resource.stage \cup flags.stage,
     access |-> access(other_resource.usage) \cup flags.access]

\* the redirected edge, aimed at the other barrier's producer
redirect_to_producer(E, other_node) ==
    E[Max({i \in DOMAIN E : E[i].target = other_node})].source

\* merge_identical_barriers: the target of the other barrier's outgoing edge
redirect_target(E, other_node) == first_edge(E, other_node).target

\* merge_identical_barriers: the inner loop over the other barriers
RECURSIVE merge_with_others(_, _, _, _, _)
merge_with_others(N, E, node, others, acc) ==
    IF others = <<>> \/ acc.err THEN acc
    ELSE LET other_node == Head(others)
             dst_usage == barrier_dst_resource(N, E, node).usage
             other_resource == barrier_dst_resource(N, E, other_node)
         IN  IF other_node = node \/ InSeq(node, acc.to_remove)
             THEN merge_with_others(N, E, node, Tail(others), acc)
             ELSE IF uid_of(N[other_node].resource) # uid_of(N[node].resource)
             THEN merge_with_others(N, E, node, Tail(others), acc)
             ELSE IF is_conflict(other_resource.usage, dst_usage)
             THEN [acc EXCEPT !.err = TRUE]
             ELSE merge_with_others(N, E, node, Tail(others),
                      [acc EXCEPT
                          !.to_remove = Append(@, other_node),
                          !.edges_to_add = Append(@,
                              Edge(node, redirect_target(E, other_node),
                                   uid_of(other_resource))),
                          !.barrier_flags[node] = accumulate_flags(@, other_resource)])

\* merge_identical_barriers: the outer loop over the barriers
RECURSIVE merge_each(_, _, _, _)
merge_each(N, E, todo, acc) ==
    IF todo = <<>> \/ acc.err THEN acc
    ELSE LET node == Head(todo)
             dst_resource == barrier_dst_resource(N, E, node)
             acc1 == [acc EXCEPT !.barrier_flags =
                         (node :> [stage |-> dst_resource.stage,
                                   access |-> access(dst_resource.usage)]) @@ @]
         IN  merge_each(N, E, Tail(todo), merge_with_others(N, E, node, barriers(N), acc1))

\* the redirected edges are forgotten
add_no_edges(E, edges_to_add) == E

\* merge_identical_barriers: the loop over edges_to_add
RECURSIVE add_edges(_, _)
add_edges(E, edges_to_add) ==
    IF edges_to_add = <<>> THEN E
    ELSE add_edges(update_edge(E, Head(edges_to_add).source, Head(edges_to_add).target,
                               Head(edges_to_add).weight),
                   Tail(edges_to_add))

\* PassGraph::merge_identical_barriers
merge_identical_barriers(N, E) ==
    LET acc == merge_each(N, E, barriers(N),
                   [err |-> FALSE, to_remove |-> <<>>, edges_to_add |-> <<>>,
                    barrier_flags |-> <<>>])
        E1 == add_edges(E, acc.edges_to_add)
        N1 == [n \in DOMAIN N |->
                 IF IsBarrier(N, n)
                 THEN [N[n] EXCEPT !.dst_stage = acc.barrier_flags[n].stage,
                                   !.dst_access = acc.barrier_flags[n].access]
                 ELSE N[n]]
        G == retain_nodes([nodes |-> N1, edges |-> E1], acc.to_remove)
    IN  IF acc.err THEN [ok |-> FALSE, nodes |-> N, edges |-> E]
        ELSE [ok |-> TRUE, nodes |-> G.nodes, edges |-> G.edges]

----------------------------------------------------------------------------
\* Passes the caller may add

MaxPasses == 3

MaxDagPasses == 4

Pass(name, inputs, outputs) == [name |-> name, inputs |-> inputs, outputs |-> outputs]

ReadFrag(r) == PassResource("ShaderRead", r, {"FRAGMENT_SHADER"}, "SHADER_READ_ONLY_OPTIMAL")

ReadXfer(r) == PassResource("TransferRead", r, {"TRANSFER"}, "TRANSFER_SRC_OPTIMAL")

WriteComp(r) == PassResource("ShaderWrite", r, {"COMPUTE_SHADER"}, "GENERAL")

WriteXfer(r) == PassResource("TransferWrite", r, {"TRANSFER"}, "TRANSFER_DST_OPTIMAL")

R0 == VirtualResource("R", 0)

R1 == VirtualResource("R", 1)

H0 == VirtualResource("H", 0)

H1 == VirtualResource("H", 1)

\* Passes over two uids that can be chained into a loop, with a second producer
DagPasses ==
    {Pass("pass", <<ReadXfer(H1)>>, <<WriteComp(R1)>>),
     Pass("pass", <<ReadFrag(R1)>>, <<WriteXfer(H1)>>),
     Pass("pass", <<ReadFrag(R1)>>, <<>>),
     Pass("pass", <<>>, <<WriteComp(R1)>>)}

Passes ==
    DagPasses \cup
    {Pass("pass", <<ReadXfer(R1)>>, <<>>),
     Pass("pass", <<WriteComp(R1)>>, <<>>),
     Pass("pass", <<WriteXfer(R1)>>, <<>>),
     Pass("pass", <<WriteComp(R0)>>, <<>>),
     Pass("pass", <<WriteXfer(R0)>>, <<>>),
     Pass("pass", <<WriteComp(R0)>>, <<WriteComp(R1)>>),
     Pass("pass", <<ReadFrag(H0)>>, <<>>),
     Pass("pass", <<ReadXfer(H0)>>, <<>>),
     Pass("pass", <<WriteXfer(H0)>>, <<WriteComp(H1)>>)}

Swapchains == {<<>>, <<R0>>}

----------------------------------------------------------------------------
\* State machine of one pass graph

GraphInit(sc) ==
    /\ nodes = PassGraph_new(sc).nodes
    /\ edges = PassGraph_new(sc).edges
    /\ swapchain = PassGraph_new(sc).swapchain
    /\ last_usages = PassGraph_new(sc).last_usages
    /\ phase = "Open"
    /\ error = "None"
    /\ phaseLog = <<>>
    /\ added = <<>>
    /\ taskEdges = <<>>

\* The graph value is consumed by a failed call: nothing is returned
Drop(err) ==
    /\ nodes' = <<>>
    /\ edges' = <<>>
    /\ last_usages' = <<>>
    /\ phase' = "Dropped"
    /\ error' = err

\* add_pass that returns the graph although add_task failed
add_pass_ignoring_error(pass) ==
    /\ phase = "Open"
    /\ LET N1 == [nodes EXCEPT ![source].outputs = @ \o source_outputs_for(pass.inputs)]
           lu == update_last_usages(update_last_usages(last_usages, pass.inputs),
                                    pass.outputs)
           r == add_task(N1, edges, PassNode(pass.name, pass.inputs, pass.outputs))
       IN  /\ nodes' = r.nodes
           /\ edges' = r.edges
           /\ last_usages' = lu
           /\ UNCHANGED <<phase, error>>
    /\ added' = Append(added, pass)
    /\ UNCHANGED <<swapchain, phaseLog, taskEdges>>
    /\ UNCHANGED <<batchVars, deviceVars, utilVars>>

\* add_pass callable on a graph that build has already returned
add_pass_after_build(pass) ==
    /\ phase # "Dropped"
    /\ LET N1 == [nodes EXCEPT ![source].outputs = @ \o source_outputs_for(pass.inputs)]
           lu == update_last_usages(update_last_usages(last_usages, pass.inputs),
                                    pass.outputs)
           r == add_task(N1, edges, PassNode(pass.name, pass.inputs, pass.outputs))
       IN  IF r.ok
           THEN /\ nodes' = r.nodes
                /\ edges' = r.edges
                /\ last_usages' = lu
                /\ UNCHANGED <<phase, error>>
           ELSE Drop("CyclicDependency")
    /\ added' = Append(added, pass)
    /\ UNCHANGED <<swapchain, phaseLog, taskEdges>>
    /\ UNCHANGED <<batchVars, deviceVars, utilVars>>

\* PassGraph::add_pass
add_pass(pass) ==
    /\ phase = "Open"
    /\ LET N1 == [nodes EXCEPT ![source].outputs = @ \o source_outputs_for(pass.inputs)]
           lu == update_last_usages(update_last_usages(last_usages, pass.inputs),
                                    pass.outputs)
           r == add_task(N1, edges, PassNode(pass.name, pass.inputs, pass.outputs))
       IN  IF r.ok
           THEN /\ nodes' = r.nodes
                /\ edges' = r.edges
                /\ last_usages' = lu
                /\ UNCHANGED <<phase, error>>
           ELSE Drop("CyclicDependency")
    /\ added' = Append(added, pass)
    /\ UNCHANGED <<swapchain, phaseLog, taskEdges>>
    /\ UNCHANGED <<batchVars, deviceVars, utilVars>>

\* build that creates the barriers before the source stages are assigned
build_barriers_first ==
    /\ phase = "Open"
    /\ LET created == create_barrier_nodes(nodes, edges)
           staged == set_source_stages(created.nodes, swapchain, last_usages)
           merged == merge_identical_barriers(staged, created.edges)
       IN  IF merged.ok
           THEN /\ nodes' = merged.nodes
                /\ edges' = merged.edges
                /\ phase' = "Built"
                /\ phaseLog' = <<"Staged", "BarriersCreated", "Merged">>
                /\ UNCHANGED <<last_usages, error>>
           ELSE /\ Drop("IllegalTaskGraph")
                /\ phaseLog' = <<"Staged", "BarriersCreated">>
    /\ taskEdges' = edges
    /\ UNCHANGED <<swapchain, added>>
    /\ UNCHANGED <<batchVars, deviceVars, utilVars>>

\* PassGraph::build
build ==
    /\ phase = "Open"
    /\ LET staged == set_source_stages(nodes, swapchain, last_usages)
           created == create_barrier_nodes(staged, edges)
           merged == merge_identical_barriers(created.nodes, created.edges)
       IN  IF merged.ok
           THEN /\ nodes' = merged.nodes
                /\ edges' = merged.edges
                /\ phase' = "Built"
                /\ phaseLog' = <<"Staged", "BarriersCreated", "Merged">>
                /\ UNCHANGED <<last_usages, error>>
           ELSE /\ Drop("IllegalTaskGraph")
                /\ phaseLog' = <<"Staged", "BarriersCreated">>
    /\ taskEdges' = edges
    /\ UNCHANGED <<swapchain, added>>
    /\ UNCHANGED <<batchVars, deviceVars, utilVars>>

----------------------------------------------------------------------------
\* Vocabulary of the properties, stated over the passes as the caller gave them

\* pass p reads a uid that pass q writes
ReadsFrom(p, q) ==
    \E i \in DOMAIN p.inputs : \E j \in DOMAIN q.outputs :
        uid_of(p.inputs[i]) = uid_of(q.outputs[j])

RECURSIVE DependencyClosure(_, _)
DependencyClosure(ps, S) ==
    LET T == S \cup {j \in DOMAIN ps : \E i \in S : ReadsFrom(ps[i], ps[j])}
    IN  IF T = S THEN S ELSE DependencyClosure(ps, T)

\* some pass transitively reads what it writes
HasDependencyCycle(ps) ==
    \E i \in DOMAIN ps :
        i \in DependencyClosure(ps, {j \in DOMAIN ps : ReadsFrom(ps[i], ps[j])})

\* no uid is an output of two different tasks: not of two passes, and not of
\* a pass and the source node (which outputs the initial versions that are read)
UniqueProducers(ps) ==
    /\ \A i, j \in DOMAIN ps :
          i # j => ~\E a \in DOMAIN ps[i].outputs :
                       HasUid(ps[j].outputs, uid_of(ps[i].outputs[a]))
    /\ \A i, j \in DOMAIN ps :
          ~\E a \in DOMAIN ps[i].outputs :
               /\ is_source(ps[i].outputs[a].resource)
               /\ HasUid(ps[j].inputs, uid_of(ps[i].outputs[a]))

BuildReturned == phaseLog # <<>>

BarrierNodes == {n \in DOMAIN nodes : IsBarrier(nodes, n)}

BarriersGuarding(u) == {n \in BarrierNodes : uid_of(nodes[n].resource) = u}

----------------------------------------------------------------------------
\* C1 (as stated): whenever the passes given to add_pass form a dependency
\* cycle, the graph has been dropped with CyclicDependency.
C1_AnyCycleRejected ==
    HasDependencyCycle(added) => phase = "Dropped" /\ error = "CyclicDependency"

\* C1 (amended): whenever the passes given to add_pass form a dependency cycle
\* and no uid is the output of two different passes, the graph has been dropped
\* with CyclicDependency.
C1_CycleRejected ==
    (HasDependencyCycle(added) /\ UniqueProducers(added))
        => phase = "Dropped" /\ error = "CyclicDependency"

C1_Witness ==
    /\ Len(added) >= 2
    /\ UniqueProducers(added)
    /\ HasDependencyCycle(added)
    /\ ~\E i \in DOMAIN added : ReadsFrom(added[i], added[i])
    /\ phase = "Dropped" /\ error = "CyclicDependency"

----------------------------------------------------------------------------
Touches(p, u) == HasUid(p.inputs, u) \/ HasUid(p.outputs, u)

UidsOf(ps) ==
    UNION {{uid_of(ps[i].inputs[j]) : j \in DOMAIN ps[i].inputs}
           \cup {uid_of(ps[i].outputs[j]) : j \in DOMAIN ps[i].outputs} : i \in DOMAIN ps}

WritesOnly(p, u) ==
    /\ HasUid(p.outputs, u) /\ ~HasUid(p.inputs, u)
    /\ ~is_read(FindByUid(p.outputs, u).usage)

ReadsOnly(p, u) ==
    /\ HasUid(p.inputs, u) /\ ~HasUid(p.outputs, u)
    /\ is_read(FindByUid(p.inputs, u).usage)

\* exactly three passes touch u: pass w writes it, passes r1 and r2 read it
OneWriterTwoReaders(u, w, r1, r2) ==
    /\ {w, r1, r2} \subseteq DOMAIN added /\ Cardinality({w, r1, r2}) = 3
    /\ {i \in DOMAIN added : Touches(added[i], u)} = {w, r1, r2}
    /\ WritesOnly(added[w], u)
    /\ ReadsOnly(added[r1], u) /\ ReadsOnly(added[r2], u)

\* C2: when one pass writes R and exactly two passes read it, in any order of
\* addition, the built graph has exactly one barrier guarding R; its dst_stage
\* is the union of the two reads' stages and its dst_access the union of the
\* two reads' access flags.
C2_MergedReadBarrier ==
    phase = "Built" =>
        \A u \in UidsOf(added) : \A w, r1, r2 \in DOMAIN added :
            OneWriterTwoReaders(u, w, r1, r2) =>
                LET in1 == FindByUid(added[r1].inputs, u)
                    in2 == FindByUid(added[r2].inputs, u)
                IN  /\ Cardinality(BarriersGuarding(u)) = 1
                    /\ \A b \in BarriersGuarding(u) :
                          /\ nodes[b].dst_stage = in1.stage \cup in2.stage
                          /\ nodes[b].dst_access = access(in1.usage) \cup access(in2.usage)

\* the writer was added last and the two reads differ in stage and access
C2_Witness ==
    /\ phase = "Built"
    /\ \E u \in UidsOf(added) : \E w, r1, r2 \in DOMAIN added :
          /\ OneWriterTwoReaders(u, w, r1, r2)
          /\ w > r1 /\ w > r2
          /\ FindByUid(added[r1].inputs, u).stage # FindByUid(added[r2].inputs, u).stage
          /\ \E b \in BarriersGuarding(u) :
                nodes[b].dst_access = {"SHADER_READ", "TRANSFER_READ"}

----------------------------------------------------------------------------
\* the version u exists: it is an initial version or some pass writes it
IsProduced(u) ==
    u[2] = 0 \/ \E i \in DOMAIN added : HasUid(added[i].outputs, u)

\* passes a and b consume u with differing write usages, and nobody reads u
ConflictingWriters(u, a, b) ==
    /\ a # b /\ IsProduced(u)
    /\ HasUid(added[a].inputs, u) /\ HasUid(added[b].inputs, u)
    /\ ~is_read(FindByUid(added[a].inputs, u).usage)
    /\ ~is_read(FindByUid(added[b].inputs, u).usage)
    /\ FindByUid(added[a].inputs, u).usage # FindByUid(added[b].inputs, u).usage
    /\ \A i \in DOMAIN added : \A j \in DOMAIN added[i].inputs :
          uid_of(added[i].inputs[j]) = u => ~is_read(added[i].inputs[j].usage)

\* C3: when two passes consume the same version with differing write usages and
\* no pass reads that version, build fails with IllegalTaskGraph.
C3_ConflictingWritesRejected ==
    (BuildReturned /\ \E u \in UidsOf(added) : \E a, b \in DOMAIN added :
                         ConflictingWriters(u, a, b))
        => phase = "Dropped" /\ error = "IllegalTaskGraph"

----------------------------------------------------------------------------
\* all usages in the order add_pass records them
RecordedUsages(ps) == Concat([i \in DOMAIN ps |-> ps[i].inputs \o ps[i].outputs])

\* the usage of the name with the highest version, the last one among equals
LastRecordedUsage(us, name) ==
    LET named == {i \in DOMAIN us : us[i].resource.name = name}
        top == Max({us[i].resource.version : i \in named})
    IN  us[Max({i \in named : us[i].resource.version = top})]

IsSwapchainName(name) == swapchain # <<>> /\ swapchain[1].name = name

\* C4: after build, every source output whose name is not the swapchain's has
\* the stage of the last recorded usage of its name (highest version, and the
\* one recorded last among usages of equal version).
C4_SourceStageIsLastUsage ==
    phase = "Built" =>
        \A i \in DOMAIN nodes[source].outputs :
            LET o == nodes[source].outputs[i]
            IN  ~IsSwapchainName(o.resource.name) =>
                    o.stage = LastRecordedUsage(RecordedUsages(added), o.resource.name).stage

----------------------------------------------------------------------------
EdgeSet == {edges[i] : i \in DOMAIN edges}

EndpointsDiffer(out, in) ==
    ~(access(out.usage) = access(in.usage) /\ out.stage = in.stage /\ out.layout = in.layout)

\* the barriers on a path source -> barrier -> target labelled with the edge's uid
BarriersOnPath(e) ==
    {b \in BarrierNodes :
        /\ Edge(e.source, b, e.weight) \in EdgeSet
        /\ Edge(b, e.target, e.weight) \in EdgeSet}

BarrierComplete(e) ==
    LET out == FindByUid(nodes[e.source].outputs, e.weight)
        in == FindByUid(nodes[e.target].inputs, e.weight)
    IN  IF EndpointsDiffer(out, in)
        THEN Cardinality(BarriersOnPath(e)) = 1 /\ e \notin EdgeSet
        ELSE BarriersOnPath(e) = {} /\ e \in EdgeSet

\* C5 (as stated): in the built graph every dependency between two tasks whose
\* endpoints differ in access, stage or layout runs through exactly one barrier,
\* and a dependency with identical endpoints is a direct edge without barrier.
C5_BarrierCompleteness ==
    phase = "Built" => \A k \in DOMAIN taskEdges : BarrierComplete(taskEdges[k])

\* C5 (amended): the same, for graphs in which no uid is the output of two
\* different tasks.
C5_BarrierCompletenessUniqueProducers ==
    (phase = "Built" /\ UniqueProducers(added))
        => \A k \in DOMAIN taskEdges : BarrierComplete(taskEdges[k])

\* a built graph with a merged barrier, a barrier-free edge and a plain barrier
C5_Witness ==
    /\ phase = "Built" /\ UniqueProducers(added)
    /\ \E k \in DOMAIN taskEdges : taskEdges[k] \in EdgeSet
    /\ \E j, k \in DOMAIN taskEdges :
          /\ j # k
          /\ BarriersOnPath(taskEdges[j]) # {}
          /\ BarriersOnPath(taskEdges[j]) = BarriersOnPath(taskEdges[k])

----------------------------------------------------------------------------
Acyclic(E) ==
    \A n \in {E[i].source : i \in DOMAIN E} :
        n \notin ReachSet(E, {E[i].target : i \in {j \in DOMAIN E : E[j].source = n}})

\* C6 (as stated): every graph returned by build is acyclic.
C6_BuiltGraphIsDag == phase = "Built" => Acyclic(edges)

\* C6 (amended): every graph returned by build in which no uid is the output
\* of two different tasks is acyclic.
C6_BuiltGraphIsDagUniqueProducers ==
    (phase = "Built" /\ UniqueProducers(added)) => Acyclic(edges)

\* a built acyclic graph in which a barrier was merged away
C6_Witness ==
    /\ phase = "Built" /\ UniqueProducers(added) /\ Acyclic(edges)
    /\ \E b \in BarrierNodes :
          Cardinality({i \in DOMAIN edges : edges[i].source = b}) >= 2

----------------------------------------------------------------------------
\* C7: in every built graph each barrier has an incoming edge from a task and
\* an outgoing edge to a task, and no edge joins two barriers.
C7_BarriersBetweenTasks ==
    phase = "Built" =>
        /\ \A b \in BarrierNodes :
              /\ \E i \in DOMAIN edges : edges[i].target = b /\ IsTask(nodes, edges[i].source)
              /\ \E i \in DOMAIN edges : edges[i].source = b /\ IsTask(nodes, edges[i].target)
        /\ \A i \in DOMAIN edges :
              /\ edges[i].source \in DOMAIN nodes /\ edges[i].target \in DOMAIN nodes
              /\ ~(IsBarrier(nodes, edges[i].source) /\ IsBarrier(nodes, edges[i].target))

\* a built graph whose merge removed a barrier that was not the last node
C7_Witness ==
    /\ phase = "Built"
    /\ Cardinality(BarrierNodes) >= 2
    /\ \E b \in BarrierNodes :
          Cardinality({i \in DOMAIN edges : edges[i].source = b}) >= 2
    /\ Cardinality(BarrierNodes) < Cardinality({k \in DOMAIN taskEdges :
           EndpointsDiffer(FindByUid(nodes[taskEdges[k].source].outputs, taskEdges[k].weight),
                           FindByUid(nodes[taskEdges[k].target].inputs, taskEdges[k].weight))})

----------------------------------------------------------------------------
----------------------------------------------------------------------------
\* Submission batch (sync/submit_batch.rs)

MaxSubmits == 3

MaxHandles == 2

MaxWaits == 2

\* Semaphores are identified by who created them and a serial number
BatchSemaphore(k) == [owner |-> "batch", id |-> k]

FrameWaitSemaphore == [owner |-> "frame", id |-> 1]

FrameSignalSemaphore == [owner |-> "frame", id |-> 2]

\* InFlightContext: inside a frame both semaphores are present
Frames ==
    {[wait_semaphore |-> w, signal_semaphore |-> g] :
        w \in {<<>>, <<FrameWaitSemaphore>>}, g \in {<<>>, <<FrameSignalSemaphore>>}}

ActiveFrame ==
    [wait_semaphore |-> <<FrameWaitSemaphore>>, signal_semaphore |-> <<FrameSignalSemaphore>>]

WaitStages == {{"TRANSFER"}, {"COMPUTE_SHADER"}}

SubmitInfo(cmd, signal_semaphore, wait_semaphores, wait_stages) ==
    [cmd |-> cmd, signal_semaphore |-> signal_semaphore,
     wait_semaphores |-> wait_semaphores, wait_stages |-> wait_stages]

SubmitHandle(index) == [index |-> index]

\* the handles of the entries of the batch (indices are 0-based)
Handles == {SubmitHandle(i) : i \in 0..(Len(submits) - 1)}

SeqsUpTo(S, n) == UNION {[1..k -> S] : k \in 0..n}

\* the wait-stage lists handed to a call: one list of each length, whose stages
\* differ from one position to the next
StageLists(n) ==
    {[i \in 1..k |-> IF i % 2 = 1 THEN {"TRANSFER"} ELSE {"COMPUTE_SHADER"}] : k \in 0..n}

\* the command buffer handed to a call: command buffers are numbered as they come
NewCmd == Len(submits) + 1

Call(op, nhandles, nstages, result) ==
    [op |-> op, nhandles |-> nhandles, nstages |-> nstages, result |-> result]

\* what a call that returned Ok(SubmitHandle) was given and gave back
Returned(handles, wait_stages, handle) ==
    [handles |-> handles, wait_stages |-> wait_stages, returned |-> handle]

\* SubmitBatch::new
BatchInit(frame) ==
    /\ submits = <<>>
    /\ ifc = frame
    /\ semaphores = 0
    /\ batchPhase = "Assembling"
    /\ submitted = <<>>
    /\ fence = [signaled |-> FALSE, cleanup |-> <<>>]
    /\ deleted = {}
    /\ cleanupRuns = 0
    /\ waitsOk = 0
    /\ lastCall = Call("new", 0, 0, "Ok")
    /\ lastOk = Returned(<<>>, <<>>, <<>>)
    /\ declared = <<>>

\* SubmitBatch::get_submit_semaphore
get_submit_semaphore(S, handle) ==
    IF handle.index + 1 \in DOMAIN S THEN S[handle.index + 1].signal_semaphore ELSE <<>>

\* handles.iter().map(|handle| self.get_submit_semaphore(*handle).unwrap())
wait_semaphores_of(S, handles) ==
    [i \in DOMAIN handles |-> get_submit_semaphore(S, handles[i])[1]]

\* SubmitBatch::submit_after; `op` names the public entry point that called it
submit_after(op, handles, wait_stages) ==
    /\ batchPhase = "Assembling"
    /\ \A i \in DOMAIN handles : get_submit_semaphore(submits, handles[i]) # <<>>
    /\ submits' = Append(submits,
           SubmitInfo(NewCmd, <<BatchSemaphore(semaphores + 1)>>,
                      wait_semaphores_of(submits, handles), wait_stages))
    /\ semaphores' = semaphores + 1
    /\ lastCall' = Call(op, Len(handles), Len(wait_stages), "Ok")
    /\ lastOk' = Returned(handles, wait_stages, <<SubmitHandle(Len(submits') - 1)>>)
    /\ declared' = Append(declared, {handles[i] : i \in DOMAIN handles})
    /\ UNCHANGED <<ifc, batchPhase, submitted, fence, deleted, cleanupRuns, waitsOk>>
    /\ UNCHANGED <<graphVars, deviceVars, utilVars>>

\* then that hands submit_after the handle but no wait stage
then_without_stage(handle, wait_stage) == submit_after("then", <<handle>>, <<>>)

\* SubmitHandle::then
then(handle, wait_stage) == submit_after("then", <<handle>>, <<wait_stage>>)

\* submit_for_present_after that always puts the frame's wait on the new entry
\* and leaves the first entry alone
submit_for_present_after_own_wait(op, handles, wait_stages) ==
    /\ batchPhase = "Assembling"
    /\ \A i \in DOMAIN handles : get_submit_semaphore(submits, handles[i]) # <<>>
    /\ IF Len(handles) # Len(wait_stages)
       THEN \* ensure!: the call returns an error
            /\ lastCall' = Call(op, Len(handles), Len(wait_stages), "MismatchedWaitCounts")
            /\ UNCHANGED <<submits, batchPhase, lastOk, declared>>
       ELSE IF ifc.wait_semaphore = <<>>
       THEN \* expect() on the frame's wait semaphore panics
            /\ lastCall' = Call(op, Len(handles), Len(wait_stages), "Panic")
            /\ batchPhase' = "Panicked"
            /\ UNCHANGED <<submits, lastOk, declared>>
       ELSE LET frame_wait_semaphore == ifc.wait_semaphore[1]
                waits == wait_semaphores_of(submits, handles)
                own_waits == Append(waits, frame_wait_semaphore)
                own_stages == Append(wait_stages, {"COLOR_ATTACHMENT_OUTPUT"})
                S1 == submits
            IN  IF ifc.signal_semaphore = <<>>
                THEN \* expect() on the frame's signal semaphore panics
                     /\ lastCall' = Call(op, Len(handles), Len(wait_stages), "Panic")
                     /\ batchPhase' = "Panicked"
                     /\ submits' = S1
                     /\ UNCHANGED <<lastOk, declared>>
                ELSE /\ submits' = Append(S1,
                            SubmitInfo(NewCmd, ifc.signal_semaphore, own_waits, own_stages))
                     /\ lastCall' = Call(op, Len(handles), Len(wait_stages), "Ok")
                     /\ lastOk' = Returned(handles, wait_stages,
                                            <<SubmitHandle(Len(submits') - 1)>>)
                     /\ declared' = Append(declared, {handles[i] : i \in DOMAIN handles})
                     /\ UNCHANGED batchPhase
    /\ UNCHANGED <<ifc, semaphores, submitted, fence, deleted, cleanupRuns, waitsOk>>
    /\ UNCHANGED <<graphVars, deviceVars, utilVars>>

\* SubmitBatch::submit_for_present_after; `op` names the public entry point
submit_for_present_after(op, handles, wait_stages) ==
    /\ batchPhase = "Assembling"
    /\ \A i \in DOMAIN handles : get_submit_semaphore(submits, handles[i]) # <<>>
    /\ IF Len(handles) # Len(wait_stages)
       THEN \* ensure!: the call returns an error
            /\ lastCall' = Call(op, Len(handles), Len(wait_stages), "MismatchedWaitCounts")
            /\ UNCHANGED <<submits, batchPhase, lastOk, declared>>
       ELSE IF ifc.wait_semaphore = <<>>
       THEN \* expect() on the frame's wait semaphore panics
            /\ lastCall' = Call(op, Len(handles), Len(wait_stages), "Panic")
            /\ batchPhase' = "Panicked"
            /\ UNCHANGED <<submits, lastOk, declared>>
       ELSE LET frame_wait_semaphore == ifc.wait_semaphore[1]
                waits == wait_semaphores_of(submits, handles)
                own_waits == IF submits = <<>> THEN Append(waits, frame_wait_semaphore)
                             ELSE waits
                own_stages == IF submits = <<>>
                              THEN Append(wait_stages, {"COLOR_ATTACHMENT_OUTPUT"})
                              ELSE wait_stages
                S1 == IF submits = <<>> THEN submits
                      ELSE [submits EXCEPT
                               ![1].wait_stages = Append(@, {"TOP_OF_PIPE"}),
                               ![1].wait_semaphores = Append(@, frame_wait_semaphore)]
            IN  IF ifc.signal_semaphore = <<>>
                THEN \* expect() on the frame's signal semaphore panics
                     /\ lastCall' = Call(op, Len(handles), Len(wait_stages), "Panic")
                     /\ batchPhase' = "Panicked"
                     /\ submits' = S1
                     /\ UNCHANGED <<lastOk, declared>>
                ELSE /\ submits' = Append(S1,
                            SubmitInfo(NewCmd, ifc.signal_semaphore, own_waits, own_stages))
                     /\ lastCall' = Call(op, Len(handles), Len(wait_stages), "Ok")
                     /\ lastOk' = Returned(handles, wait_stages,
                                            <<SubmitHandle(Len(submits') - 1)>>)
                     /\ declared' = Append(declared, {handles[i] : i \in DOMAIN handles})
                     /\ UNCHANGED batchPhase
    /\ UNCHANGED <<ifc, semaphores, submitted, fence, deleted, cleanupRuns, waitsOk>>
    /\ UNCHANGED <<graphVars, deviceVars, utilVars>>

\* SubmitBatch::submit_for_present
submit_for_present == submit_for_present_after("submit_for_present", <<>>, <<>>)

\* submit_for_present_after_all that leaves out the entry added last
submit_for_present_after_all_but_last(wait_stage) ==
    submit_for_present_after("submit_for_present_after_all",
        [i \in 1..(Len(submits) - 1) |-> SubmitHandle(i - 1)],
        [i \in 1..(Len(submits) - 1) |-> wait_stage])

\* SubmitBatch::submit_for_present_after_all
submit_for_present_after_all(wait_stage) ==
    submit_for_present_after("submit_for_present_after_all",
        [i \in 1..Len(submits) |-> SubmitHandle(i - 1)],
        [i \in 1..Len(submits) |-> wait_stage])

\* submit that takes the batch's first semaphore instead of creating one
submit_reusing_semaphore ==
    /\ batchPhase = "Assembling"
    /\ submits' = Append(submits, SubmitInfo(NewCmd, <<BatchSemaphore(1)>>, <<>>, <<>>))
    /\ semaphores' = semaphores + 1
    /\ lastCall' = Call("submit", 0, 0, "Ok")
    /\ lastOk' = Returned(<<>>, <<>>, <<SubmitHandle(Len(submits') - 1)>>)
    /\ declared' = Append(declared, {})
    /\ UNCHANGED <<ifc, batchPhase, submitted, fence, deleted, cleanupRuns, waitsOk>>
    /\ UNCHANGED <<graphVars, deviceVars, utilVars>>

\* SubmitBatch::submit
submit ==
    /\ batchPhase = "Assembling"
    /\ submits' = Append(submits,
           SubmitInfo(NewCmd, <<BatchSemaphore(semaphores + 1)>>, <<>>, <<>>))
    /\ semaphores' = semaphores + 1
    /\ lastCall' = Call("submit", 0, 0, "Ok")
    /\ lastOk' = Returned(<<>>, <<>>, <<SubmitHandle(Len(submits') - 1)>>)
    /\ declared' = Append(declared, {})
    /\ UNCHANGED <<ifc, batchPhase, submitted, fence, deleted, cleanupRuns, waitsOk>>
    /\ UNCHANGED <<graphVars, deviceVars, utilVars>>

Min(a, b) == IF a < b THEN a ELSE b

\* a PerSubmit record that also waits on the semaphore of the entry before it
per_submit_info_chained(info) ==
    [wait_semaphores |->
        [i \in 1..Min(Len(info.wait_semaphores), Len(info.wait_stages)) |->
            [semaphore |-> info.wait_semaphores[i], stage_mask |-> info.wait_stages[i]]]
        \o (IF info.cmd > 1 /\ submits[info.cmd - 1].signal_semaphore # <<>>
            THEN <<[semaphore |-> submits[info.cmd - 1].signal_semaphore[1],
                    stage_mask |-> {"TOP_OF_PIPE"}]>>
            ELSE <<>>),
     cmd_buffer |-> <<info.cmd>>,
     signal_semaphores |->
        IF info.signal_semaphore = <<>> THEN <<>>
        ELSE <<[semaphore |-> info.signal_semaphore[1], stage_mask |-> {"BOTTOM_OF_PIPE"}]>>]

\* a PerSubmit record whose semaphore is signalled at TOP_OF_PIPE
per_submit_info_top_of_pipe(info) ==
    [wait_semaphores |->
        [i \in 1..Min(Len(info.wait_semaphores), Len(info.wait_stages)) |->
            [semaphore |-> info.wait_semaphores[i], stage_mask |-> info.wait_stages[i]]],
     cmd_buffer |-> <<info.cmd>>,
     signal_semaphores |->
        IF info.signal_semaphore = <<>> THEN <<>>
        ELSE <<[semaphore |-> info.signal_semaphore[1], stage_mask |-> {"TOP_OF_PIPE"}]>>]

\* finish: the PerSubmit record of one entry (zip stops at the shorter list)
per_submit_info(info) ==
    [wait_semaphores |->
        [i \in 1..Min(Len(info.wait_semaphores), Len(info.wait_stages)) |->
            [semaphore |-> info.wait_semaphores[i], stage_mask |-> info.wait_stages[i]]],
     cmd_buffer |-> <<info.cmd>>,
     signal_semaphores |->
        IF info.signal_semaphore = <<>> THEN <<>>
        ELSE <<[semaphore |-> info.signal_semaphore[1], stage_mask |-> {"BOTTOM_OF_PIPE"}]>>]

\* Fence::with_cleanup: the fence with the continuation attached; the
\* continuation owns the entries of the batch
Fence_with_cleanup(f, owned) == [f EXCEPT !.cleanup = <<owned>>]

\* finish that returns the bare fence
finish_without_cleanup(device_result) ==
    /\ batchPhase = "Assembling"
    /\ submitted' = Append(submitted, [i \in DOMAIN submits |-> per_submit_info(submits[i])])
    /\ IF device_result = "Ok"
       THEN /\ batchPhase' = "Finished"
            /\ UNCHANGED fence
       ELSE /\ batchPhase' = "Failed"
            /\ UNCHANGED fence
    /\ lastCall' = Call("finish", 0, 0, device_result)
    /\ UNCHANGED <<submits, ifc, semaphores, deleted, cleanupRuns, waitsOk, lastOk, declared>>
    /\ UNCHANGED <<graphVars, deviceVars, utilVars>>

\* finish that deletes the command buffers itself, before it returns the fence
finish_deleting_commands(device_result) ==
    /\ batchPhase = "Assembling"
    /\ submitted' = Append(submitted, [i \in DOMAIN submits |-> per_submit_info(submits[i])])
    /\ IF device_result = "Ok"
       THEN /\ batchPhase' = "Finished"
            /\ fence' = Fence_with_cleanup(fence, submits)
            /\ deleted' = deleted \cup {submits[i].cmd : i \in DOMAIN submits}
       ELSE /\ batchPhase' = "Failed"
            /\ UNCHANGED <<fence, deleted>>
    /\ lastCall' = Call("finish", 0, 0, device_result)
    /\ UNCHANGED <<submits, ifc, semaphores, cleanupRuns, waitsOk, lastOk, declared>>
    /\ UNCHANGED <<graphVars, deviceVars, utilVars>>

\* SubmitBatch::finish; device_result is the outcome of exec.submit_batch
finish(device_result) ==
    /\ batchPhase = "Assembling"
    /\ submitted' = Append(submitted, [i \in DOMAIN submits |-> per_submit_info(submits[i])])
    /\ IF device_result = "Ok"
       THEN /\ batchPhase' = "Finished"
            /\ fence' = Fence_with_cleanup(fence, submits)
       ELSE /\ batchPhase' = "Failed"
            /\ UNCHANGED fence
    /\ lastCall' = Call("finish", 0, 0, device_result)
    /\ UNCHANGED <<submits, ifc, semaphores, deleted, cleanupRuns, waitsOk, lastOk, declared>>
    /\ UNCHANGED <<graphVars, deviceVars, utilVars>>

\* The device completes the submitted work and signals the fence
fence_signal ==
    /\ batchPhase = "Finished"
    /\ ~fence.signaled
    /\ fence' = [fence EXCEPT !.signaled = TRUE]
    /\ UNCHANGED <<submits, ifc, semaphores, batchPhase, submitted, deleted, lastOk, declared,
                   cleanupRuns, waitsOk, lastCall>>
    /\ UNCHANGED <<graphVars, deviceVars, utilVars>>

\* Fence::wait: a wait on a signaled fence succeeds and runs the cleanup that is
\* still attached; a wait on an unsignaled fence times out; the device may fail
Fence_wait(outcome) ==
    /\ batchPhase = "Finished"
    /\ outcome = "Ok" => fence.signaled
    /\ outcome = "FenceTimeout" => ~fence.signaled
    /\ IF outcome = "Ok"
       THEN /\ waitsOk' = waitsOk + 1
            /\ IF fence.cleanup # <<>>
               THEN \* the closure of finish: delete every entry's command buffer
                    /\ deleted' = deleted \cup
                           {fence.cleanup[1][i].cmd : i \in DOMAIN fence.cleanup[1]}
                    /\ cleanupRuns' = cleanupRuns + 1
                    /\ fence' = [fence EXCEPT !.cleanup = <<>>]
               ELSE UNCHANGED <<deleted, cleanupRuns, fence>>
       ELSE UNCHANGED <<waitsOk, deleted, cleanupRuns, fence>>
    /\ lastCall' = Call("wait", 0, 0, outcome)
    /\ UNCHANGED <<submits, ifc, semaphores, batchPhase, submitted, lastOk, declared>>
    /\ UNCHANGED <<graphVars, deviceVars, utilVars>>

----------------------------------------------------------------------------
\* Device execution of the submitted call (ExecutionManager::submit_batch and
\* the queue behind it). Binary semaphores: a signal is held until one wait
\* consumes it. A record's gated work starts once every semaphore it waits on
\* holds a signal; nothing else orders the records of the call.

\* the submit records the device was given (none if the call failed)
Records == IF batchPhase = "Finished" /\ submitted # <<>> THEN submitted[1] ELSE <<>>

WaitsOf(record) == {record.wait_semaphores[j].semaphore : j \in DOMAIN record.wait_semaphores}

SignalsOf(record) ==
    {record.signal_semaphores[j].semaphore : j \in DOMAIN record.signal_semaphores}

DeviceInit ==
    /\ executing = {}
    /\ executed = {}
    /\ signalled = {}
    /\ acquired = FALSE

\* the swapchain signals the frame's wait semaphore when the image is acquired
acquire_signal ==
    /\ batchPhase = "Finished"
    /\ ifc.wait_semaphore # <<>>
    /\ ~acquired
    /\ acquired' = TRUE
    /\ signalled' = signalled \cup {ifc.wait_semaphore[1]}
    /\ UNCHANGED <<executing, executed>>
    /\ UNCHANGED <<graphVars, batchVars, utilVars>>

\* the gated work of record i may start
CanBegin(i) ==
    /\ i \in DOMAIN Records
    /\ i \notin executing \cup executed
    /\ WaitsOf(Records[i]) \subseteq signalled

\* the gated work of record i starts; its waits consume the signals
device_begin(i) ==
    /\ CanBegin(i)
    /\ executing' = executing \cup {i}
    /\ signalled' = signalled \ WaitsOf(Records[i])
    /\ UNCHANGED <<executed, acquired>>
    /\ UNCHANGED <<graphVars, batchVars, utilVars>>

\* the command buffer of record i completes and its semaphore is signalled
device_complete(i) ==
    /\ i \in executing
    /\ executing' = executing \ {i}
    /\ executed' = executed \cup {i}
    /\ signalled' = signalled \cup SignalsOf(Records[i])
    /\ UNCHANGED acquired
    /\ UNCHANGED <<graphVars, batchVars, utilVars>>

\* every record of the call has completed
AllExecuted == batchPhase = "Finished" /\ executed = DOMAIN Records

----------------------------------------------------------------------------
\* Deferred deletion queue (util/deferred_delete.rs)

MaxTtl == 2

MaxPushes == 3

MaxFrames == 4

\* u32::MAX; 4294967295 in the program, the largest integer TLC represents here
U32Max == 2147483647

\* u32 subtraction of one, wrapping
wrapping_dec(n) == IF n = 0 THEN U32Max ELSE n - 1

Item(value, ttl) == [value |-> value, ttl |-> ttl]

\* DeletionQueue::new
DeletionQueue_new(ttl) == [max_ttl |-> ttl, items |-> <<>>]

QueueInit(ttl) ==
    /\ max_ttl = DeletionQueue_new(ttl).max_ttl
    /\ items = DeletionQueue_new(ttl).items
    /\ queuePhase = "Live"
    /\ frames = 0
    /\ pushedAt = <<>>

\* DeletionQueue::push; values are numbered in the order they are pushed
push ==
    /\ queuePhase = "Live"
    /\ items' = Append(items, Item(Len(pushedAt) + 1, max_ttl))
    /\ pushedAt' = Append(pushedAt, frames)
    /\ UNCHANGED <<max_ttl, queuePhase, frames>>
    /\ UNCHANGED <<graphVars, batchVars, deviceVars, allocVars, usageVars, imageVars>>

\* item.ttl -= 1 on every item, up to and without the first item whose ttl is 0
decrement_until_overflow(its) ==
    LET zeros == {i \in DOMAIN its : its[i].ttl = 0}
        stop == IF zeros = {} THEN Len(its) + 1 ELSE CHOOSE i \in zeros : \A j \in zeros : i <= j
    IN  [i \in DOMAIN its |-> IF i < stop THEN Item(its[i].value, its[i].ttl - 1) ELSE its[i]]

\* item.ttl -= 1 on every item, in u32 arithmetic that wraps
decrement_wrapping(its) ==
    [i \in DOMAIN its |-> Item(its[i].value, wrapping_dec(its[i].ttl))]

retain(its) == SelectSeq(its, LAMBDA item : item.ttl # 0)

\* next_frame that drops the expired items before it decrements
next_frame_retain_first(overflow_checks) ==
    /\ queuePhase = "Live"
    /\ items' = decrement_wrapping(retain(items))
    /\ frames' = frames + 1
    /\ UNCHANGED <<max_ttl, queuePhase, pushedAt>>
    /\ UNCHANGED <<graphVars, batchVars, deviceVars, allocVars, usageVars, imageVars>>

\* DeletionQueue::next_frame; overflow_checks tells whether the build panics on
\* arithmetic overflow (debug) or wraps (release)
next_frame(overflow_checks) ==
    /\ queuePhase = "Live"
    /\ IF overflow_checks /\ \E i \in DOMAIN items : items[i].ttl = 0
       THEN /\ items' = decrement_until_overflow(items)
            /\ queuePhase' = "Panicked"
            /\ UNCHANGED frames
       ELSE /\ items' = retain(decrement_wrapping(items))
            /\ frames' = frames + 1
            /\ UNCHANGED queuePhase
    /\ UNCHANGED <<max_ttl, pushedAt>>
    /\ UNCHANGED <<graphVars, batchVars, deviceVars, allocVars, usageVars, imageVars>>

----------------------------------------------------------------------------
\* Scratch allocator (allocator/scratch_allocator.rs) and Buffer::view (buffer.rs)

MaxSize == 8

Alignments == {1, 4}

\* Buffer::size
Buffer_size(buf) == buf.size

\* u64::MAX (vk::DeviceSize is u64); 2^64 - 1 in the program, 2^30 - 1 here so
\* that the sum of two values stays an integer of the checker. Like 2^64, the
\* modulus is a multiple of every alignment used.
U64Max == 1073741823

\* a + b in u64 arithmetic that wraps
wrapping_add(a, b) == (a + b) % (U64Max + 1)

\* a + b does not fit a u64
overflows(a, b) == a + b > U64Max

\* Buffer::view; overflow_checks tells whether the build panics on arithmetic
\* overflow (debug) or wraps (release)
Buffer_view(buf, view_offset, size, overflow_checks) ==
    IF overflow_checks /\ overflows(view_offset, size)
    THEN [result |-> "Panic", view |-> <<>>]
    ELSE IF wrapping_add(view_offset, size) >= buf.size
    THEN [result |-> "BufferViewOutOfRange", view |-> <<>>]
    ELSE [result |-> "Ok", view |-> <<[offset |-> view_offset, size |-> size]>>]

\* Buffer::view_full
Buffer_view_full(buf) == [offset |-> 0, size |-> buf.size]

ViewCall(op, view_offset, size, result, view) ==
    [op |-> op, offset |-> view_offset, size |-> size, result |-> result, view |-> view]

AllocCall(op, size, at, result, view) ==
    [op |-> op, size |-> size, at |-> at, result |-> result, view |-> view]

\* ScratchAllocator::new_with_alignment, on a buffer that is mapped
ScratchAllocator_new(max_size, align) ==
    [buffer |-> [size |-> max_size], offset |-> 0, alignment |-> align]

AllocInit(max_size, align) ==
    /\ buffer = ScratchAllocator_new(max_size, align).buffer
    /\ offset = ScratchAllocator_new(max_size, align).offset
    /\ alignment = ScratchAllocator_new(max_size, align).alignment
    /\ lastAlloc = AllocCall("new", max_size, 0, "Ok", <<>>)
    /\ served = <<>>
    /\ lastView = ViewCall("new", 0, max_size, "Ok", <<>>)

\* ScratchAllocator::allocate; overflow_checks as in Buffer_view. A call that
\* panics unwinds from where it is: nothing is called on the allocator after
\* it.
allocate(size, overflow_checks) ==
    LET unaligned_part == size % alignment
        padding == alignment - unaligned_part
        padded_size == wrapping_add(size, padding)
    IN  /\ lastAlloc.result # "Panic"
        /\ IF overflow_checks /\ (overflows(size, padding) \/ overflows(offset, padded_size))
           THEN /\ lastAlloc' = AllocCall("allocate", size, offset, "Panic", <<>>)
                /\ UNCHANGED <<offset, served>>
           ELSE IF wrapping_add(offset, padded_size) > Buffer_size(buffer)
           THEN /\ lastAlloc' = AllocCall("allocate", size, offset, "OutOfMemory", <<>>)
                /\ UNCHANGED <<offset, served>>
           ELSE /\ offset' = wrapping_add(offset, padded_size)
                /\ lastAlloc' = AllocCall("allocate", size, offset,
                                   Buffer_view(buffer, offset, size, overflow_checks).result,
                                   Buffer_view(buffer, offset, size, overflow_checks).view)
                /\ served' = served \o Buffer_view(buffer, offset, size, overflow_checks).view
        /\ UNCHANGED <<buffer, alignment, lastView>>
        /\ UNCHANGED <<graphVars, batchVars, deviceVars, queueVars, usageVars, imageVars>>

\* ScratchAllocator::reset
reset ==
    /\ lastAlloc.result # "Panic"
    /\ offset' = 0
    /\ lastAlloc' = AllocCall("reset", 0, offset, "Ok", <<>>)
    /\ served' = <<>>
    /\ UNCHANGED <<buffer, alignment, lastView>>
    /\ UNCHANGED <<graphVars, batchVars, deviceVars, queueVars, usageVars, imageVars>>

\* Buffer::view called on the buffer with any offset and size
view_call(view_offset, size, overflow_checks) ==
    /\ lastView.result # "Panic"
    /\ lastView' = ViewCall("view", view_offset, size,
                       Buffer_view(buffer, view_offset, size, overflow_checks).result,
                       Buffer_view(buffer, view_offset, size, overflow_checks).view)
    /\ UNCHANGED <<buffer, offset, alignment, lastAlloc, served>>
    /\ UNCHANGED <<graphVars, batchVars, deviceVars, queueVars, usageVars, imageVars>>

\* Buffer::view_full called on the buffer
view_full_call ==
    /\ lastView.result # "Panic"
    /\ lastView' = ViewCall("view_full", Buffer_view_full(buffer).offset,
                       Buffer_view_full(buffer).size, "Ok", <<Buffer_view_full(buffer)>>)
    /\ UNCHANGED <<buffer, offset, alignment, lastAlloc, served>>
    /\ UNCHANGED <<graphVars, batchVars, deviceVars, queueVars, usageVars, imageVars>>

----------------------------------------------------------------------------
\* ResourceUsage::is_read and ResourceUsage::access applied to resources
\* (graph/resource.rs)

MaxQueries == 3

UsageInit == queries = <<>>

\* resource.usage.is_read() and resource.usage.access() on a pass resource
usage_query(passResource) ==
    /\ queries' = Append(queries,
           [resource |-> passResource,
            is_read |-> is_read(passResource.usage),
            access |-> access(passResource.usage)])
    /\ UNCHANGED <<graphVars, batchVars, deviceVars, queueVars, allocVars, imageVars>>

----------------------------------------------------------------------------
\* Image view ids (image.rs)

MaxThreads == 3

MaxViews == 4

Threads == 1..MaxThreads

ImageInit ==
    /\ COUNTER = 1
    /\ pc = [t \in Threads |-> "idle"]
    /\ viewIds = [t \in Threads |-> <<>>]

\* Image::view up to the creation of the Vulkan handle
view_begin(t) ==
    /\ pc[t] = "idle"
    /\ pc' = [pc EXCEPT ![t] = "created"]
    /\ UNCHANGED <<COUNTER, viewIds>>
    /\ UNCHANGED <<graphVars, batchVars, deviceVars, queueVars, allocVars, usageVars>>

\* the view is given the counter's value and the counter is left as it is
view_finish_load(t) ==
    /\ pc[t] = "created"
    /\ viewIds' = [viewIds EXCEPT ![t] = Append(@, COUNTER)]
    /\ pc' = [pc EXCEPT ![t] = "idle"]
    /\ UNCHANGED COUNTER
    /\ UNCHANGED <<graphVars, batchVars, deviceVars, queueVars, allocVars, usageVars>>

\* Image::view from ImgView::get_new_id on: COUNTER.fetch_add(1) is one atomic
\* step that returns the value before the addition
view_finish(t) ==
    /\ pc[t] = "created"
    /\ viewIds' = [viewIds EXCEPT ![t] = Append(@, COUNTER)]
    /\ COUNTER' = COUNTER + 1
    /\ pc' = [pc EXCEPT ![t] = "idle"]
    /\ UNCHANGED <<graphVars, batchVars, deviceVars, queueVars, allocVars, usageVars>>

\* the utilities as they are while the graph and the batch are exercised
UtilInit == QueueInit(1) /\ AllocInit(1, 1) /\ UsageInit /\ ImageInit

----------------------------------------------------------------------------
\* Specifications

Init ==
    /\ \E sc \in Swapchains : GraphInit(sc)
    /\ BatchInit(ActiveFrame)
    /\ DeviceInit
    /\ UtilInit

Next ==
    \/ \E pass \in Passes : Len(added) < MaxPasses /\ add_pass(pass)
    \/ build

Spec == Init /\ [][Next]_vars

NextDag ==
    \/ \E pass \in DagPasses : Len(added) < MaxDagPasses /\ add_pass(pass)
    \/ build

SpecDag == Init /\ [][NextDag]_vars

\* an image with the name set_source_stages compares against when the graph
\* has no swapchain resource: VirtualResource::image("__none__internal__")
N0 == VirtualResource("__none__internal__", 0)

\* passes that read initial resources, a pass that writes the swapchain, a
\* pass the caller named like the source task, a pass that reads one
\* resource at two stages and two passes that write an initial resource in
\* different ways
StagePasses ==
    {Pass("pass", <<ReadFrag(N0)>>, <<>>),
     Pass("pass", <<ReadXfer(N0)>>, <<>>),
     Pass("pass", <<ReadFrag(H0)>>, <<>>),
     Pass("pass", <<ReadXfer(R0)>>, <<WriteComp(R1)>>),
     Pass("pass", <<ReadFrag(R1)>>, <<>>),
     Pass("_source", <<>>, <<WriteComp(R1)>>),
     Pass("pass", <<ReadFrag(H0), ReadXfer(H0)>>, <<>>),
     Pass("pass", <<WriteComp(H0)>>, <<>>),
     Pass("pass", <<WriteXfer(H0)>>, <<>>)}

NextStages ==
    \/ \E pass \in StagePasses : Len(added) < MaxPasses /\ add_pass(pass)
    \/ build

SpecStages == Init /\ [][NextStages]_vars

InitBatch ==
    /\ GraphInit(<<>>)
    /\ \E frame \in Frames : BatchInit(frame)
    /\ DeviceInit
    /\ UtilInit

NextBatch ==
    \/ Len(submits) < MaxSubmits /\ submit
    \/ \E handle \in Handles : \E wait_stage \in WaitStages :
          Len(submits) < MaxSubmits /\ then(handle, wait_stage)
    \/ Len(submits) < MaxSubmits /\ submit_for_present
    \/ \E handles \in SeqsUpTo(Handles, MaxHandles) :
          \E wait_stages \in StageLists(MaxHandles) :
             /\ Len(submits) < MaxSubmits
             /\ submit_for_present_after("submit_for_present_after", handles, wait_stages)
    \/ \E wait_stage \in WaitStages :
          Len(submits) < MaxSubmits /\ submit_for_present_after_all(wait_stage)
    \/ \E device_result \in {"Ok", "DeviceError"} : finish(device_result)
    \/ fence_signal
    \/ \E outcome \in {"Ok", "FenceTimeout", "FenceWaitFailed"} :
          waitsOk < MaxWaits /\ Fence_wait(outcome)

SpecBatch == InitBatch /\ [][NextBatch]_vars

\* The batch with submit_after called on its own, with any two argument lists
NextSubmitAfter ==
    \/ NextBatch
    \/ \E handles \in SeqsUpTo(Handles, MaxHandles) :
          \E wait_stages \in StageLists(MaxHandles) :
             /\ Len(submits) < MaxSubmits
             /\ submit_after("submit_after", handles, wait_stages)

SpecSubmitAfter == InitBatch /\ [][NextSubmitAfter]_vars

\* The batch assembled through its public calls, flushed, and executed by the
\* device record by record
NextExec ==
    \/ Len(submits) < MaxSubmits /\ submit
    \/ \E handle \in Handles : \E wait_stage \in WaitStages :
          Len(submits) < MaxSubmits /\ then(handle, wait_stage)
    \/ Len(submits) < MaxSubmits /\ submit_for_present
    \/ \E handles \in SeqsUpTo(Handles, MaxHandles) :
          \E wait_stages \in StageLists(MaxHandles) :
             /\ Len(submits) < MaxSubmits
             /\ submit_for_present_after("submit_for_present_after", handles, wait_stages)
    \/ \E wait_stage \in WaitStages :
          Len(submits) < MaxSubmits /\ submit_for_present_after_all(wait_stage)
    \/ \E device_result \in {"Ok", "DeviceError"} : finish(device_result)
    \/ acquire_signal
    \/ \E i \in 1..MaxSubmits : device_begin(i)
    \/ \E i \in 1..MaxSubmits : device_complete(i)
    \/ AllExecuted /\ fence_signal

SpecExec == InitBatch /\ [][NextExec]_vars

\* The same, with a device that keeps working: the image is eventually
\* acquired, a record that can start eventually starts, a started record
\* eventually completes, and the fence is signalled once all have completed
ExecFairness ==
    /\ WF_vars(acquire_signal)
    /\ \A i \in 1..MaxSubmits : WF_vars(device_begin(i))
    /\ \A i \in 1..MaxSubmits : WF_vars(device_complete(i))
    /\ WF_vars(AllExecuted /\ fence_signal)

SpecExecLive == SpecExec /\ ExecFairness

InitQueue ==
    /\ GraphInit(<<>>)
    /\ BatchInit(ActiveFrame)
    /\ DeviceInit
    /\ \E ttl \in 0..MaxTtl : QueueInit(ttl)
    /\ AllocInit(1, 1)
    /\ UsageInit
    /\ ImageInit

NextQueue ==
    \/ Len(pushedAt) < MaxPushes /\ push
    \/ \E overflow_checks \in BOOLEAN : frames < MaxFrames /\ next_frame(overflow_checks)

SpecQueue == InitQueue /\ [][NextQueue]_vars

InitAlloc ==
    /\ GraphInit(<<>>)
    /\ BatchInit(ActiveFrame)
    /\ DeviceInit
    /\ QueueInit(1)
    /\ \E max_size \in 1..MaxSize : \E align \in Alignments : AllocInit(max_size, align)
    /\ UsageInit
    /\ ImageInit

\* the sizes asked for: small ones, and the largest a u64 can hold
Sizes == (0..MaxSize) \cup {U64Max - k : k \in 0..MaxSize}

\* the number of views followed between two resets
MaxServed == 3

NextAlloc ==
    \/ \E size \in Sizes : \E overflow_checks \in BOOLEAN :
          Len(served) < MaxServed /\ allocate(size, overflow_checks)
    \/ reset

SpecAlloc == InitAlloc /\ [][NextAlloc]_vars

\* A buffer of any size, with views taken of it
NextBuffer ==
    \/ \E view_offset \in Sizes : \E size \in Sizes : \E overflow_checks \in BOOLEAN :
          view_call(view_offset, size, overflow_checks)
    \/ view_full_call

SpecBuffer == InitAlloc /\ [][NextBuffer]_vars

\* the resources the usage functions are applied to
QueriedResources ==
    {PassResource(usage, resource, {"TRANSFER"}, "GENERAL") :
        usage \in ResourceUsages, resource \in {R0, R1}}

InitUsage ==
    /\ GraphInit(<<>>)
    /\ BatchInit(ActiveFrame)
    /\ DeviceInit
    /\ UtilInit

NextUsage ==
    \E passResource \in QueriedResources :
        Len(queries) < MaxQueries /\ usage_query(passResource)

SpecUsage == InitUsage /\ [][NextUsage]_vars

\* views created from several threads; the number of views is bounded
ViewsStarted ==
    Cardinality({t \in Threads : pc[t] = "created"})
    + Cardinality({<<t, i>> \in Threads \X (1..MaxViews) : i \in DOMAIN viewIds[t]})

NextImage ==
    \/ \E t \in Threads : ViewsStarted < MaxViews /\ view_begin(t)
    \/ \E t \in Threads : view_finish(t)

SpecImage == InitUsage /\ [][NextImage]_vars

----------------------------------------------------------------------------
IsSubmitAfterCall(call) ==
    call.op \in {"submit_after", "submit_for_present_after"}

----------------------------------------------------------------------------
\* C10: once finish has returned the fence, the cleanup has run exactly once
\* if some wait on the fence has succeeded, and not at all before that.
C10_CleanupRunsOnce ==
    batchPhase = "Finished" => cleanupRuns = (IF waitsOk >= 1 THEN 1 ELSE 0)

\* two waits have succeeded on the fence of a batch with entries
C10_Witness ==
    /\ batchPhase = "Finished" /\ submits # <<>>
    /\ waitsOk >= 2 /\ cleanupRuns = 1

----------------------------------------------------------------------------
\* the command buffers of the entries of the batch
CommandBuffers == {submits[i].cmd : i \in DOMAIN submits}

\* C11: command buffers are deleted only by a wait on the batch's fence that
\* succeeds after the fence was signalled, which runs the cleanup attached by
\* finish; no other step (finish itself, a wait that timed out or failed)
\* deletes a command buffer.
C11_DeletionOnlyInCleanup ==
    [][deleted' # deleted =>
          /\ batchPhase = "Finished"
          /\ fence.signaled
          /\ fence.cleanup # <<>>
          /\ lastCall' = Call("wait", 0, 0, "Ok")
          /\ deleted' = CommandBuffers]_vars

\* the cleanup of a batch of two or more entries has deleted their command buffers
C11_Witness ==
    /\ batchPhase = "Finished" /\ fence.signaled
    /\ Len(submits) >= 2 /\ deleted = CommandBuffers

----------------------------------------------------------------------------
\* the submit record an entry stands for: its command buffer, one wait info per
\* wait semaphore with the stage at the same position, its signal semaphore
RecordOf(info) ==
    [wait_semaphores |->
        [j \in DOMAIN info.wait_semaphores |->
            [semaphore |-> info.wait_semaphores[j], stage_mask |-> info.wait_stages[j]]],
     cmd_buffer |-> <<info.cmd>>,
     signal_semaphores |->
        <<[semaphore |-> info.signal_semaphore[1], stage_mask |-> {"BOTTOM_OF_PIPE"}]>>]

\* C12: no device submission call is made before finish; finish makes exactly
\* one, with one record per entry in insertion order, each record holding the
\* entry's command buffer, one wait info per (wait semaphore, wait stage) pair and
\* the entry's signal semaphore signalled at BOTTOM_OF_PIPE.
C12_OneSubmissionCall ==
    /\ batchPhase \in {"Assembling", "Panicked"} => submitted = <<>>
    /\ batchPhase \in {"Finished", "Failed"} =>
          /\ Len(submitted) = 1
          /\ Len(submitted[1]) = Len(submits)
          /\ \A i \in DOMAIN submits :
                /\ Len(submits[i].wait_semaphores) = Len(submits[i].wait_stages)
                /\ submits[i].signal_semaphore # <<>>
                /\ submitted[1][i] = RecordOf(submits[i])

\* a flushed batch of three entries, one of them with two waits
C12_Witness ==
    /\ batchPhase = "Finished" /\ Len(submits) = 3
    /\ \E i \in DOMAIN submits : Len(submits[i].wait_semaphores) = 2

----------------------------------------------------------------------------
\* record b starts its gated work in this step
Begins(b) == b \notin executing \cup executed /\ b \in executing'

\* C13: the gated work of an entry added with a wait on the handle of another
\* entry starts only after that entry's command buffer has completed (and so
\* signalled its semaphore).
C13_DeclaredWaitsOrderExecution ==
    [][\A b \in DOMAIN declared :
          Begins(b) => \A handle \in declared[b] : (handle.index + 1) \in executed]_vars

----------------------------------------------------------------------------
\* entry i was added by a plain submit: no handles, a semaphore of its own
PlainSubmit(i) ==
    /\ declared[i] = {}
    /\ submits[i].signal_semaphore # <<>>
    /\ submits[i].signal_semaphore[1].owner = "batch"

Pending(i) == i \in DOMAIN Records /\ i \notin executing \cup executed

\* the only wait a plain submit can carry is the frame's, put on the first entry
AwaitsAcquire(i) == ifc.wait_semaphore # <<>> /\ ifc.wait_semaphore[1] \in WaitsOf(Records[i])

\* C14: after finish, an entry added by a plain submit can start whatever the
\* other entries of the batch have done (only the image acquire can hold back
\* the first entry), so two plain submits can execute in either order.
C14_PlainSubmitsUnordered ==
    \A i \in DOMAIN Records :
        (PlainSubmit(i) /\ Pending(i) /\ (AwaitsAcquire(i) => acquired)) => CanBegin(i)

\* two plain submits: the one added later has completed, the earlier one has
\* not started
C14_Witness ==
    \E i, j \in DOMAIN Records :
        /\ i < j /\ PlainSubmit(i) /\ PlainSubmit(j)
        /\ Pending(i) /\ j \in executed

----------------------------------------------------------------------------
\* this step is a call of submit
SubmitStep ==
    /\ lastCall'.op = "submit"
    /\ <<submits, semaphores, lastCall>>' # <<submits, semaphores, lastCall>>

\* the entry a handle designates: its command buffer and its signal semaphore
Designated(S, handle) ==
    <<S[handle.index + 1].cmd, S[handle.index + 1].signal_semaphore>>

\* C15: a submit call appends exactly one entry, with empty wait lists and a
\* signal semaphore that no other entry has, and returns the handle of that
\* entry's position; no step removes or reorders entries, so every handle of the
\* batch designates the same entry (command buffer and signal semaphore) after
\* the step as before it.
C15_SubmitAppendsStableHandle ==
    [][/\ SubmitStep =>
             /\ Len(submits') = Len(submits) + 1
             /\ SubSeq(submits', 1, Len(submits)) = submits
             /\ submits'[Len(submits')].wait_semaphores = <<>>
             /\ submits'[Len(submits')].wait_stages = <<>>
             /\ submits'[Len(submits')].signal_semaphore # <<>>
             /\ \A i \in DOMAIN submits :
                   submits[i].signal_semaphore # submits'[Len(submits')].signal_semaphore
             /\ lastOk'.returned = <<SubmitHandle(Len(submits') - 1)>>
       /\ Len(submits') >= Len(submits)
       /\ \A handle \in Handles : Designated(submits', handle) = Designated(submits, handle)
      ]_vars

\* a submit call has returned the handle of the third entry, after a present
\* submission added a wait to the first entry
C15_Witness ==
    /\ lastCall.op = "submit" /\ Len(submits) = 3
    /\ lastOk.returned = <<SubmitHandle(2)>>
    /\ submits[1].wait_semaphores # <<>>

----------------------------------------------------------------------------
PresentOps ==
    {"submit_for_present", "submit_for_present_after", "submit_for_present_after_all"}

\* this step is a present submission that returned a handle
PresentStep ==
    /\ lastCall'.op \in PresentOps /\ lastCall'.result = "Ok"
    /\ submits' # submits

\* the given handles' signal semaphores paired with the given stages
GivenWaits(S, call) ==
    [i \in DOMAIN call.handles |->
        <<get_submit_semaphore(S, call.handles[i])[1], call.wait_stages[i]>>]

\* the (wait semaphore, wait stage) pairs of an entry, in order
WaitPairs(info) ==
    [i \in DOMAIN info.wait_semaphores |-> <<info.wait_semaphores[i], info.wait_stages[i]>>]

\* C16: a present submission appends one entry whose signal semaphore is the
\* frame's signal semaphore. On an empty batch the new entry waits on the given
\* handles' semaphores at the given stages and then on the frame's wait semaphore
\* at COLOR_ATTACHMENT_OUTPUT. Otherwise the new entry waits exactly on the given
\* handles' semaphores at the given stages, the first entry gets the frame's wait
\* semaphore at TOP_OF_PIPE appended to its waits, and nothing else changes.
C16_PresentWiring ==
    [][PresentStep =>
          LET new == submits'[Len(submits')]
              given == GivenWaits(submits, lastOk')
          IN  /\ Len(submits') = Len(submits) + 1
              /\ new.signal_semaphore = ifc.signal_semaphore
              /\ new.signal_semaphore # <<>>
              /\ Len(new.wait_semaphores) = Len(new.wait_stages)
              /\ IF submits = <<>>
                 THEN WaitPairs(new) =
                         Append(given, <<ifc.wait_semaphore[1], {"COLOR_ATTACHMENT_OUTPUT"}>>)
                 ELSE /\ WaitPairs(new) = given
                      /\ WaitPairs(submits'[1]) =
                            Append(WaitPairs(submits[1]),
                                   <<ifc.wait_semaphore[1], {"TOP_OF_PIPE"}>>)
                      /\ submits'[1].cmd = submits[1].cmd
                      /\ submits'[1].signal_semaphore = submits[1].signal_semaphore
                      /\ \A i \in 2..Len(submits) : submits'[i] = submits[i]
      ]_vars

\* a present submission after two handles has been made on a batch of two
\* entries: the first entry carries the frame's wait, the new entry does not
C16_Witness ==
    /\ lastCall.op = "submit_for_present_after" /\ lastCall.result = "Ok"
    /\ Len(submits) = 3 /\ Len(lastOk.handles) = 2
    /\ submits[1].wait_semaphores = <<FrameWaitSemaphore>>
    /\ FrameWaitSemaphore \notin {submits[3].wait_semaphores[i] : i \in 1..2}

----------------------------------------------------------------------------
\* this step is a submit_for_present_after_all call that returned a handle
AfterAllStep ==
    /\ lastCall'.op = "submit_for_present_after_all" /\ lastCall'.result = "Ok"
    /\ submits' # submits

----------------------------------------------------------------------------
\* the in-flight context is not that of an active frame
NoActiveFrame == ifc.wait_semaphore = <<>> \/ ifc.signal_semaphore = <<>>

\* this step is a present-submission call with as many handles as stages
PresentCallStep ==
    /\ lastCall'.op \in PresentOps
    /\ lastCall'.nhandles = lastCall'.nstages
    /\ <<lastCall, submits, batchPhase>>' # <<lastCall, submits, batchPhase>>

\* C18: a present-submission call made without an active frame returns the
\* MissingFrameContext error and leaves the entries of the batch as they were.
C18_MissingFrameContextReturned ==
    [][(PresentCallStep /\ NoActiveFrame) =>
          (lastCall'.result = "MissingFrameContext" /\ submits' = submits)]_vars

----------------------------------------------------------------------------
\* the queue still holds the item pushed as `value`
Held(value) == \E i \in DOMAIN items : items[i].value = value

\* C19: in a queue created with max_ttl >= 1, an item is held exactly while
\* fewer than max_ttl next_frame calls have returned since its push: it survives
\* the first max_ttl - 1 of them and the max_ttl-th removes it, whatever else was
\* pushed and whenever.
C19_RemovedByNthFrame ==
    max_ttl >= 1 =>
        /\ queuePhase = "Live"
        /\ \A value \in DOMAIN pushedAt :
              Held(value) <=> (frames - pushedAt[value] < max_ttl)

\* max_ttl = 2: the first item is gone after its second frame while an item
\* pushed one frame later is still held
C19_Witness ==
    /\ max_ttl = 2 /\ Len(pushedAt) >= 2
    /\ pushedAt[1] = 0 /\ pushedAt[2] = 1 /\ frames = 2
    /\ ~Held(1) /\ Held(2)

----------------------------------------------------------------------------
\* C20: an allocation of as many bytes as the allocator's capacity, made when
\* the allocator is fresh or has just been reset (its offset is 0), succeeds and
\* returns the view of the whole capacity starting at offset 0.
C20_FullCapacityServed ==
    (lastAlloc.op = "allocate" /\ lastAlloc.at = 0 /\ lastAlloc.size = Buffer_size(buffer)) =>
        /\ lastAlloc.result = "Ok"
        /\ lastAlloc.view = <<[offset |-> 0, size |-> Buffer_size(buffer)]>>

----------------------------------------------------------------------------
\* C21

\* the usages the claim lists as reads
ReadUsages == {"Nothing", "ShaderRead", "TransferRead", "IndirectCommandRead"}

\* C21: is_read is true exactly for Nothing, ShaderRead, TransferRead and
\* IndirectCommandRead and false for Present, every Attachment kind,
\* ShaderWrite and TransferWrite; two resources with the same usage get the
\* same is_read and the same access, whatever their other fields are.
C21_IsReadClassification ==
    /\ \A i \in DOMAIN queries :
           queries[i].is_read <=> queries[i].resource.usage \in ReadUsages
    /\ \A i, j \in DOMAIN queries :
           queries[i].resource.usage = queries[j].resource.usage
               => /\ queries[i].is_read = queries[j].is_read
                  /\ queries[i].access = queries[j].access

\* Present was queried, and a read usage was queried on two different resources
C21_Witness ==
    /\ \E i \in DOMAIN queries :
           queries[i].resource.usage = "Present" /\ ~queries[i].is_read
    /\ \E i, j \in DOMAIN queries :
           /\ queries[i].resource.usage = "IndirectCommandRead"
           /\ queries[j].resource.usage = "IndirectCommandRead"
           /\ queries[i].resource.resource # queries[j].resource.resource
           /\ queries[i].is_read

----------------------------------------------------------------------------
\* C22

\* the outputs the claim says a pass with these inputs adds to the source node
InitialOutputs(inputs) ==
    LET initial == SelectSeq(inputs, LAMBDA input : input.resource.version = 0)
    IN  [i \in 1..Len(initial) |->
            [usage |-> "Nothing", resource |-> initial[i].resource,
             stage |-> {}, layout |-> "UNDEFINED"]]

\* a call of add_pass that returned the graph
AddPassStep ==
    /\ phase = "Open"
    /\ phase' = "Open"
    /\ Len(added') = Len(added) + 1

\* C22: add_pass appends to the source node one output (usage Nothing, stage
\* NONE, layout UNDEFINED) for every input of the pass with version 0, in the
\* order of the inputs, and nothing for inputs with a later version or for
\* outputs; the outputs the source node already had stay.
C22_SourceOutputsForInitialInputs ==
    [][AddPassStep =>
          nodes'[source].outputs =
              nodes[source].outputs \o InitialOutputs(added'[Len(added')].inputs)]_vars

\* a pass reading R0, a pass reading R1 and producing H1, and a pass reading
\* H0 were added: the source node has the two outputs R0 and H0
C22_Witness ==
    /\ phase = "Open"
    /\ \E i, j, k \in DOMAIN added :
           /\ added[i].inputs = <<WriteComp(R0)>>
           /\ added[j].inputs = <<ReadFrag(R1)>> /\ added[j].outputs # <<>>
           /\ added[k].inputs = <<ReadFrag(H0)>>
    /\ Len(nodes[source].outputs) = 2

----------------------------------------------------------------------------
\* C23

\* the stage the claim gives a source output after build
ClaimedSourceStage(output) ==
    IF swapchain # <<>> /\ output.resource.name = swapchain[1].name
    THEN {"COLOR_ATTACHMENT_OUTPUT"}
    ELSE last_usages[output.resource.name][2]

\* C23: after build a source output has stage COLOR_ATTACHMENT_OUTPUT exactly
\* when its resource has the name of the designated swapchain resource; every
\* other output, and every output of a graph created without a swapchain
\* resource, has the stage the last-usage table records for its name.
C23_SourceStages ==
    phase = "Built" =>
        \A i \in DOMAIN nodes[source].outputs :
            nodes[source].outputs[i].stage = ClaimedSourceStage(nodes[source].outputs[i])

----------------------------------------------------------------------------
\* C24

\* the graph is held by the caller (not consumed by a failed call)
GraphAlive == phase \in {"Open", "Built"}

\* the resources of the outputs add_pass has given the source task so far
RECURSIVE SourceResources(_)
SourceResources(passes) ==
    IF passes = <<>> THEN <<>>
    ELSE LET given == InitialOutputs(Head(passes).inputs)
         IN  [i \in DOMAIN given |-> given[i].resource] \o SourceResources(Tail(passes))

\* the node the captured index designates is the task created by new: it has
\* the identifier _source, no inputs, the outputs add_pass pushed for the
\* initial inputs, and no incoming edge
SourceDesignated ==
    /\ source \in DOMAIN nodes
    /\ IsTask(nodes, source)
    /\ nodes[source].identifier = "_source"
    /\ nodes[source].inputs = <<>>
    /\ [i \in DOMAIN nodes[source].outputs |-> nodes[source].outputs[i].resource]
           = SourceResources(added)
    /\ \A i \in DOMAIN edges : edges[i].target # source

SourceLikeTasks ==
    {n \in DOMAIN nodes :
        IsTask(nodes, n) /\ nodes[n].identifier = "_source" /\ nodes[n].inputs = <<>>}

\* C24 (as stated): in every graph the caller holds, the captured index
\* designates the source task, which has no incoming edge, and the source task
\* is the only task with identifier _source and no inputs.
C24_SourceTaskUnique ==
    GraphAlive => SourceDesignated /\ SourceLikeTasks = {source}

\* C24 (amended): in every graph the caller holds, after any add_pass calls
\* and after build's removal of merged barriers, the captured index designates
\* the source task, which has no incoming edge; it is the only task with
\* identifier _source and no inputs when no added pass has that name.
C24_SourceTaskStable ==
    GraphAlive =>
        /\ SourceDesignated
        /\ (\A i \in DOMAIN added : added[i].name # "_source")
               => SourceLikeTasks = {source}

\* build merged the barriers of two readers of one initial resource and
\* removed one barrier node
C24_Witness ==
    /\ phase = "Built"
    /\ \E i, j \in DOMAIN added :
           added[i].inputs = <<ReadFrag(N0)>> /\ added[j].inputs = <<ReadXfer(N0)>>
    /\ Cardinality(BarriersGuarding(uid(N0))) = 1
    /\ SourceDesignated

----------------------------------------------------------------------------
\* C25

\* the views created so far, each as the thread and the position in the
\* thread's list
Views == {<<t, i>> \in Threads \X (1..MaxViews) : i \in DOMAIN viewIds[t]}

\* C25: no two image views, created by the same thread or by different
\* threads running Image::view concurrently, have the same id.
C25_ViewIdsUnique ==
    \A v, w \in Views : v # w => viewIds[v[1]][v[2]] # viewIds[w[1]][w[2]]

\* the ids of two threads interleave: a thread got an id between two ids of
\* another thread
C25_Witness ==
    \E t, u \in Threads :
        /\ t # u
        /\ Len(viewIds[t]) >= 2
        /\ Len(viewIds[u]) >= 1
        /\ viewIds[u][1] > viewIds[t][1]
        /\ viewIds[u][1] < viewIds[t][2]

----------------------------------------------------------------------------
\* C26

\* the names and the versions of the inputs and outputs of the given passes
NamesIn(ps) == {RecordedUsages(ps)[i].resource.name : i \in DOMAIN RecordedUsages(ps)}

VersionsOf(ps, name) ==
    {RecordedUsages(ps)[i].resource.version :
        i \in {j \in DOMAIN RecordedUsages(ps) : RecordedUsages(ps)[j].resource.name = name}}

\* C26: after every add_pass that returns the graph, the last-usage table has
\* an entry for exactly the names occurring in the added passes, with the
\* highest version among the inputs and outputs of that name; an entry is
\* never removed, its version never decreases, and it changes only to a
\* strictly larger version.
C26_LastUsageIsMaxVersion ==
    [][phase' = "Open" =>
          /\ DOMAIN last_usages' = NamesIn(added')
          /\ \A name \in NamesIn(added') :
                 last_usages'[name][1] = Max(VersionsOf(added', name))
          /\ \A name \in DOMAIN last_usages :
                 /\ name \in DOMAIN last_usages'
                 /\ last_usages'[name][1] >= last_usages[name][1]
                 /\ last_usages'[name] # last_usages[name]
                        => last_usages'[name][1] > last_usages[name][1]]_vars

\* R was recorded at version 1, then again at version 1 at another stage and
\* at version 0: the entry is still the first one
C26_Witness ==
    /\ phase = "Open"
    /\ Len(added) = 3
    /\ added[1].inputs = <<ReadFrag(R1)>>
    /\ added[2].inputs = <<ReadXfer(R1)>>
    /\ added[3].inputs = <<WriteComp(R0)>>
    /\ last_usages["R"] = <<1, {"FRAGMENT_SHADER"}>>

----------------------------------------------------------------------------
\* C27

\* the tasks a barrier has an outgoing edge to
TargetsOf(b) == {edges[i].target : i \in {j \in DOMAIN edges : edges[j].source = b}}

\* the inputs of the barrier's targets that match the guarded uid
ConsumerInputs(b) ==
    UNION {{nodes[t].inputs[j] :
               j \in {k \in DOMAIN nodes[t].inputs :
                          uid_of(nodes[t].inputs[k]) = uid_of(nodes[b].resource)}} :
           t \in TargetsOf(b)}

\* C27: after a successful build every barrier's dst_stage is the union of
\* the stages, and its dst_access the union of the access flags, of the inputs
\* matching its uid over all the tasks it has an outgoing edge to; a barrier
\* with a single consumer carries exactly that consumer's stage and access.
C27_DestinationFlagsCoverConsumers ==
    phase = "Built" =>
        \A b \in BarrierNodes :
            /\ TargetsOf(b) # {}
            /\ nodes[b].dst_stage = UNION {r.stage : r \in ConsumerInputs(b)}
            /\ nodes[b].dst_access = UNION {access(r.usage) : r \in ConsumerInputs(b)}

----------------------------------------------------------------------------
\* C28

\* the graph build hands to the merge: stages assigned and barriers created
BeforeMerge ==
    create_barrier_nodes(set_source_stages(nodes, swapchain, last_usages), edges)

\* the pairs <<uid, task>> such that a barrier guarding uid has an edge to task
\* labelled uid, in the given graph
Guarded(N, E) ==
    {<<E[i].weight, E[i].target>> :
        i \in {j \in DOMAIN E :
                  /\ IsBarrier(N, E[j].source)
                  /\ uid_of(N[E[j].source].resource) = E[j].weight}}

\* build returned the graph
BuildStep == phase = "Open" /\ phase' = "Built"

\* C28: after a successful build no two barrier nodes guard the same uid, and
\* every task that was the target of a barrier guarding uid u before the merge
\* is the target of an edge labelled u from the barrier that guards u
\* afterwards (tasks keep their node index: only barriers are removed or
\* moved).
C28_MergeKeepsConsumers ==
    [][BuildStep =>
          /\ \A b, c \in BarrierNodes' :
                 uid_of(nodes'[b].resource) = uid_of(nodes'[c].resource) => b = c
          /\ Guarded(BeforeMerge.nodes, BeforeMerge.edges) \subseteq Guarded(nodes', edges')]_vars

\* a built graph in which one barrier guards R1 for two consumers that had a
\* barrier each before the merge
C28_Witness ==
    /\ phase = "Built"
    /\ Cardinality(BarriersGuarding(uid(R1))) = 1
    /\ \E b \in BarriersGuarding(uid(R1)) : Cardinality(TargetsOf(b)) = 2
    /\ Len(taskEdges) >= 2

----------------------------------------------------------------------------
\* C29

\* the graph after add_pass of the given passes in their order, or ok = FALSE
\* when one of the calls failed
RECURSIVE GraphOf(_, _)
GraphOf(passes, sc) ==
    IF passes = <<>>
    THEN [ok |-> TRUE, nodes |-> PassGraph_new(sc).nodes, edges |-> PassGraph_new(sc).edges,
          last_usages |-> PassGraph_new(sc).last_usages]
    ELSE LET g == GraphOf(SubSeq(passes, 1, Len(passes) - 1), sc)
             pass == passes[Len(passes)]
             N1 == [g.nodes EXCEPT ![source].outputs = @ \o source_outputs_for(pass.inputs)]
             r == add_task(N1, g.edges, PassNode(pass.name, pass.inputs, pass.outputs))
         IN  IF ~g.ok THEN g
             ELSE [ok |-> r.ok, nodes |-> r.nodes, edges |-> r.edges,
                   last_usages |-> update_last_usages(
                       update_last_usages(g.last_usages, pass.inputs), pass.outputs)]

\* what add_pass of the given passes followed by build returns
BuildResult(passes, sc) ==
    LET g == GraphOf(passes, sc)
        created == create_barrier_nodes(set_source_stages(g.nodes, sc, g.last_usages),
                                        g.edges)
    IN  IF ~g.ok THEN "CyclicDependency"
        ELSE IF merge_identical_barriers(created.nodes, created.edges).ok THEN "Built"
        ELSE "IllegalTaskGraph"

\* the orders in which the given passes can be added
Orders(passes) ==
    {[i \in DOMAIN passes |-> passes[f[i]]] :
        f \in {g \in [DOMAIN passes -> DOMAIN passes] :
                  \A i, j \in DOMAIN passes : g[i] = g[j] => i = j}}

\* the barriers that guard u in the graph handed to the merge
GroupOf(u) ==
    {b \in DOMAIN BeforeMerge.nodes :
        IsBarrier(BeforeMerge.nodes, b) /\ uid_of(BeforeMerge.nodes[b].resource) = u}

\* the usage of the consumer behind a barrier of the graph handed to the merge
ConsumerUsage(b) == barrier_dst_resource(BeforeMerge.nodes, BeforeMerge.edges, b).usage

\* some group of three or more barriers has two consumers that both write,
\* in different ways
ConflictInLargeGroup ==
    \E b, c \in DOMAIN BeforeMerge.nodes :
        /\ IsBarrier(BeforeMerge.nodes, b) /\ IsBarrier(BeforeMerge.nodes, c)
        /\ uid_of(BeforeMerge.nodes[b].resource) = uid_of(BeforeMerge.nodes[c].resource)
        /\ Cardinality(GroupOf(uid_of(BeforeMerge.nodes[b].resource))) >= 3
        /\ ~is_read(ConsumerUsage(b)) /\ ~is_read(ConsumerUsage(c))
        /\ ConsumerUsage(b) # ConsumerUsage(c)

\* C29: when build is called on a graph in which three or more barriers guard
\* one uid and two of their consumers have different write usages, build
\* fails with IllegalTaskGraph, whichever barrier comes first; and for every
\* order of the added passes in which all add_pass calls succeed, build gives
\* the same result.
C29_ConflictRejectedInAnyOrder ==
    [][(phase = "Open" /\ phase' # "Open" /\ added' = added) =>
          /\ ConflictInLargeGroup => phase' = "Dropped" /\ error' = "IllegalTaskGraph"
          /\ \A order \in Orders(added) :
                 BuildResult(order, swapchain) # "CyclicDependency"
                     => BuildResult(order, swapchain) = BuildResult(added, swapchain)]_vars

----------------------------------------------------------------------------
\* C30

\* the tasks with an edge into the barrier, in the built graph
ProducersOf(b) == {edges[i].source : i \in {j \in DOMAIN edges : edges[j].target = b}}

\* every barrier of the graph handed to the merge has no destination flags yet
CreatedWithoutDestination ==
    \A b \in DOMAIN BeforeMerge.nodes :
        IsBarrier(BeforeMerge.nodes, b) =>
            /\ BeforeMerge.nodes[b].dst_access = {}
            /\ BeforeMerge.nodes[b].dst_stage = {}

\* the barrier's source flags are those of its producer's output: the access
\* of the output's usage and the output's stage as it is in the built graph
SourceFlagsFromProducer(b) ==
    /\ ProducersOf(b) # {}
    /\ \A p \in ProducersOf(b) :
           LET output == FindByUid(nodes[p].outputs, uid_of(nodes[b].resource))
           IN  /\ nodes[b].src_access = access(output.usage)
               /\ nodes[b].src_stage = output.stage
               /\ p = source => nodes[b].src_access = {}

\* C30: every barrier is created with dst_access and dst_stage NONE and with
\* src_access and src_stage taken from its producer's output; a barrier whose
\* producer is the source node has src_access NONE and the stage build
\* assigned to that source output.
C30_BarrierSourceFlags ==
    /\ phase = "Open" => CreatedWithoutDestination
    /\ phase = "Built" => \A b \in BarrierNodes : SourceFlagsFromProducer(b)

\* a built graph with a barrier behind the source node that carries the
\* assigned stage, and a barrier behind a pass
C30_Witness ==
    /\ phase = "Built"
    /\ \E b \in BarrierNodes :
           /\ ProducersOf(b) = {source}
           /\ nodes[b].src_stage # {}
           /\ nodes[b].src_stage = last_usages[nodes[b].resource.resource.name][2]
    /\ \E b \in BarrierNodes : source \notin ProducersOf(b) /\ ProducersOf(b) # {}

----------------------------------------------------------------------------
\* C31

\* size rounded up to the next multiple of align
RoundUp(size, align) == ((size + align - 1) \div align) * align

\* the last call was an allocate that returned a view
AllocateServed == lastAlloc.op = "allocate" /\ lastAlloc.result = "Ok"

\* C31: a successful allocate(size) advances the allocator's offset by size
\* rounded up to the next multiple of the alignment, that is by at least size
\* and by fewer than alignment bytes more, also for size 0 and for exact
\* multiples of the alignment.
C31_OffsetAdvancesByRoundedSize ==
    AllocateServed =>
        /\ offset - lastAlloc.at = RoundUp(lastAlloc.size, alignment)
        /\ offset - lastAlloc.at >= lastAlloc.size
        /\ offset - lastAlloc.at - lastAlloc.size < alignment

----------------------------------------------------------------------------
\* C32

\* the places (entry, position) where the frame's wait semaphore is waited on
FrameWaitPlaces ==
    {<<i, j>> \in (DOMAIN submits) \X (1..(MaxSubmits + MaxHandles + 1)) :
        /\ j \in DOMAIN submits[i].wait_semaphores
        /\ submits[i].wait_semaphores[j] = FrameWaitSemaphore}

\* the entries added by a present submission: they signal the frame's semaphore
PresentEntries ==
    {i \in DOMAIN submits : submits[i].signal_semaphore = <<FrameSignalSemaphore>>}

\* C32: in every batch assembled with submit, then and the present
\* submissions, the frame's wait semaphore occurs at most once among the wait
\* lists of all entries, and exactly once when one present submission was made.
C32_FrameWaitAtMostOnce ==
    batchPhase # "Panicked" =>
        /\ Cardinality(FrameWaitPlaces) <= 1
        /\ Cardinality(PresentEntries) = 1 => Cardinality(FrameWaitPlaces) = 1

----------------------------------------------------------------------------
\* C33

\* C33: in every batch assembled through the public calls each entry has as
\* many wait stages as wait semaphores, and the submission finish makes holds,
\* for every entry, one wait record per wait semaphore, in order, each with
\* the stage at the same position.
C33_WaitListsPaired ==
    /\ \A i \in DOMAIN submits :
           Len(submits[i].wait_stages) = Len(submits[i].wait_semaphores)
    /\ submitted # <<>> =>
           \A i \in DOMAIN submits :
               /\ Len(submitted[1][i].wait_semaphores) = Len(submits[i].wait_semaphores)
               /\ \A j \in DOMAIN submits[i].wait_semaphores :
                      /\ submitted[1][i].wait_semaphores[j].semaphore
                             = submits[i].wait_semaphores[j]
                      /\ submitted[1][i].wait_semaphores[j].stage_mask
                             = submits[i].wait_stages[j]

\* a flushed batch whose first entry got the frame's wait from a later present
\* submission, with an entry added by then and a present entry with two waits
C33_Witness ==
    /\ batchPhase = "Finished" /\ Len(submits) = 3
    /\ submits[1].wait_semaphores = <<FrameWaitSemaphore>>
    /\ submits[1].wait_stages = <<{"TOP_OF_PIPE"}>>
    /\ Len(submits[2].wait_semaphores) = 1
    /\ Len(submits[3].wait_semaphores) = 2
    /\ Len(submitted[1][3].wait_semaphores) = 2

----------------------------------------------------------------------------
\* C34

\* entry i waits on a semaphore that entry j signals
WaitsFor(i, j) ==
    /\ submits[j].signal_semaphore # <<>>
    /\ \E k \in DOMAIN submits[i].wait_semaphores :
           submits[i].wait_semaphores[k] = submits[j].signal_semaphore[1]

\* the entries reached from the entries of S along the wait-for relation
RECURSIVE WaitReach(_)
WaitReach(S) ==
    LET T == S \cup {j \in DOMAIN submits : \E i \in S : WaitsFor(i, j)}
    IN  IF T = S THEN S ELSE WaitReach(T)

\* C34: in every batch assembled through the public calls, every entry has a
\* signal semaphore, each wait semaphore of an entry is the signal semaphore of
\* an entry added before it or the frame's wait semaphore, and no entry
\* reaches itself along the wait-for relation between entries.
C34_WaitsOnEarlierEntries ==
    batchPhase # "Panicked" =>
        \A i \in DOMAIN submits :
            /\ submits[i].signal_semaphore # <<>>
            /\ \A k \in DOMAIN submits[i].wait_semaphores :
                   \/ submits[i].wait_semaphores[k] = FrameWaitSemaphore
                   \/ \E j \in 1..(i - 1) :
                          submits[i].wait_semaphores[k] = submits[j].signal_semaphore[1]
            /\ i \notin WaitReach({j \in DOMAIN submits : WaitsFor(i, j)})

----------------------------------------------------------------------------
\* C35: once finish has handed the batch to the device, every entry eventually
\* executes and the batch fence is eventually signalled, whatever batch was
\* assembled with submit, then and the present submissions.
C35_BatchCompletes ==
    (batchPhase = "Finished") ~> (AllExecuted /\ fence.signaled)

----------------------------------------------------------------------------
\* C36: for every max_ttl >= 0 and every sequence of push and next_frame
\* calls, next_frame never decrements a ttl of 0 (no call panics, no ttl
\* wraps), every held item has 1 <= ttl <= max_ttl, and no item is held after
\* more than max_ttl frames.
C36_TtlWithinBounds ==
    /\ queuePhase = "Live"
    /\ \A i \in DOMAIN items :
           /\ 1 <= items[i].ttl /\ items[i].ttl <= max_ttl
           /\ frames - pushedAt[items[i].value] <= max_ttl

----------------------------------------------------------------------------
\* C37

\* the byte ranges [offset, offset + size) of two views have no byte in common
Disjoint(v, w) == v.offset + v.size <= w.offset \/ w.offset + w.size <= v.offset

\* C37: for any sequence of allocate calls since the last reset, every
\* returned view starts at a multiple of the alignment and ends inside the
\* buffer, no two returned views overlap, and the allocator's offset does not
\* exceed the buffer size.
C37_ViewsAlignedInsideDisjoint ==
    /\ offset <= Buffer_size(buffer)
    /\ \A i \in DOMAIN served :
           /\ served[i].offset % alignment = 0
           /\ served[i].offset + served[i].size <= Buffer_size(buffer)
    /\ \A i, j \in DOMAIN served : i # j => Disjoint(served[i], served[j])

----------------------------------------------------------------------------
\* C38

\* the last call was an allocate that returned an error
AllocateFailed ==
    /\ lastAlloc.op = "allocate"
    /\ lastAlloc.result \in {"OutOfMemory", "BufferViewOutOfRange"}

\* C38: an allocate call that returns an error, out of memory or a failing
\* buffer view, leaves the offset where it was before the call, and a call
\* whose capacity check passes never fails in Buffer::view.
C38_FailedAllocateKeepsOffset ==
    /\ AllocateFailed => offset = lastAlloc.at
    /\ lastAlloc.result # "BufferViewOutOfRange"

----------------------------------------------------------------------------
\* C39

\* the range [offset, offset + size) asked for lies within the buffer
WithinBuffer(call) == call.offset + call.size <= Buffer_size(buffer)

\* C39: Buffer::view(offset, size) returns a view exactly when offset + size
\* is at most the buffer size, and BufferViewOutOfRange otherwise; view(0,
\* buffer size) succeeds with the range view_full describes.
C39_ViewExactlyWhenWithin ==
    lastView.op = "view" =>
        /\ WithinBuffer(lastView) =>
               /\ lastView.result = "Ok"
               /\ lastView.view = <<[offset |-> lastView.offset, size |-> lastView.size]>>
        /\ ~WithinBuffer(lastView) => lastView.result = "BufferViewOutOfRange"
        /\ (lastView.offset = 0 /\ lastView.size = Buffer_size(buffer)) =>
               lastView.view = <<Buffer_view_full(buffer)>>

====
